---- MODULE Spec2Model ----
(***************************************************************************)
(* A model of pyavd: the AVD lifecycle controller (pyavd/pyavd.py), the    *)
(* section parsers of `avdmanager list ...` output, and the tool locator   *)
(* find_android_tool (android_sdk_utils/_android_sdk_utils.py).            *)
(*                                                                         *)
(* Text is modelled as sequences of one-character strings, so that strip,  *)
(* split, upper, int and the regular expressions are computed, not assumed.*)
(* An optional value is <<>> (None) or <<v>>.                              *)
(***************************************************************************)
EXTENDS Integers, Sequences, FiniteSets, TLC

VARIABLES
    \* -- one AVD instance and the processes it spawned
    name,       \* AVD.name
    path,       \* AVD.path (optional string)
    process,    \* AVD.process: NoProc (None) or the id of the Popen handle
    procs,      \* the emulator processes spawned so far: id -> [state, cmd]
    ret,        \* outcome of the last lifecycle call
    ran,        \* the last command delete() or rename() ran: [argv, exit]
    \* -- one invocation of a parser
    kind,       \* which parser runs: "target", "device" or "avd"
    lines,      \* the input lines
    listing,    \* stdout lines of `avdmanager list device` (the catalog)
    parsed,     \* [done, out, err]: the records yielded and the error raised
    again,      \* what a second invocation on the same text returned
    \* -- one call of find_android_tool
    tool,       \* the argument
    platform,   \* sys.platform: "linux", "darwin" or "win"
    env,        \* os.environ: [override, sdk_root, home, extra]
    which,      \* what shutil.which answers: [bare, win]
    fs,         \* the file system: the paths that exist
    found,      \* [done, outcome, path, stage]: what the call returned
    \* -- one call of AVD.create
    cargs,      \* the arguments of the call
    cenv,       \* what the tools answer: [catalog, listing, exit, debug, wrap]
    cmdlog,     \* the commands _run has executed, oldest first
    cret,       \* [done, outcome, value]: what the call returned or raised
    \* -- one call of AVD.wait_boot_completed
    wargs,      \* [name, timeout]: self.name and the argument
    adb,        \* the adb collaborator: [devices, script]
    clock,      \* time.time(), in seconds since the call began
    wait,       \* the locals of the call: [pc, deadline, serial, entered,
                \*   polls, sleeps]
    wret        \* [done, outcome]: how the call ended

lifeVars == <<name, path, process, procs, ret, ran>>
parseVars == <<kind, lines, listing, parsed, again>>
findVars == <<tool, platform, env, which, fs, found>>
createVars == <<cargs, cenv, cmdlog, cret>>
bootVars == <<wargs, adb, clock, wait, wret>>
vars == <<lifeVars, parseVars, findVars, createVars, bootVars>>

\* Bounds of the model
MaxSpawn == 3
MaxLines == 4
MaxAvdLines == 3
MaxFiles == 2
MaxListing == 2
MaxTimeout == 11
MaxLag == 1
MaxScript == 2
MaxPolls == 5

NoneV == <<>>
Some(v) == <<v>>
NoProc == 0

\* ------------------------------------------------------------------------
\* Text helpers: a string is a sequence of one-character strings
\* ------------------------------------------------------------------------
Whitespace == {" ", "\t", "\n", "\r"}
Digits == <<"0", "1", "2", "3", "4", "5", "6", "7", "8", "9">>
IsDigit(c) == \E i \in 1..10 : Digits[i] = c
DigitVal(c) == (CHOOSE i \in 1..10 : Digits[i] = c) - 1

LowerCase ==
    <<"a", "b", "c", "d", "e", "f", "g", "h", "i", "j", "k", "l", "m",
      "n", "o", "p", "q", "r", "s", "t", "u", "v", "w", "x", "y", "z">>
UpperCase ==
    <<"A", "B", "C", "D", "E", "F", "G", "H", "I", "J", "K", "L", "M",
      "N", "O", "P", "Q", "R", "S", "T", "U", "V", "W", "X", "Y", "Z">>

\* str.upper()
Upper(s) ==
    [i \in 1..Len(s) |->
        IF \E j \in 1..26 : LowerCase[j] = s[i]
        THEN UpperCase[CHOOSE j \in 1..26 : LowerCase[j] = s[i]]
        ELSE s[i]]

RECURSIVE LStrip(_)
LStrip(s) ==
    IF s # <<>> /\ Head(s) \in Whitespace THEN LStrip(Tail(s)) ELSE s

RECURSIVE RStrip(_)
RStrip(s) ==
    IF s # <<>> /\ s[Len(s)] \in Whitespace
    THEN RStrip(SubSeq(s, 1, Len(s) - 1))
    ELSE s

\* str.strip()
Strip(s) == RStrip(LStrip(s))

\* str.startswith(p)
StartsWith(s, p) == Len(s) >= Len(p) /\ SubSeq(s, 1, Len(p)) = p

\* index of the first occurrence of character c in s at or after i, 0 if none
RECURSIVE IndexFrom(_, _, _)
IndexFrom(s, c, i) ==
    IF i > Len(s) THEN 0
    ELSE IF s[i] = c THEN i
    ELSE IndexFrom(s, c, i + 1)

\* c in s
Contains(s, c) == IndexFrom(s, c, 1) # 0

\* (x.strip() for x in line.split(":", 1)), for a line that contains ":"
SplitColon(line) ==
    LET i == IndexFrom(line, ":", 1)
    IN  [k |-> Strip(SubSeq(line, 1, i - 1)),
         v |-> Strip(SubSeq(line, i + 1, Len(line)))]

\* the value of a run of decimal digits
RECURSIVE DigitsVal(_)
DigitsVal(s) ==
    IF s = <<>> THEN 0
    ELSE 10 * DigitsVal(SubSeq(s, 1, Len(s) - 1)) + DigitVal(s[Len(s)])

\* str(n) for an integer n
RECURSIVE NatToStr(_)
NatToStr(n) ==
    IF n < 10 THEN <<Digits[n + 1]>>
    ELSE NatToStr(n \div 10) \o <<Digits[(n % 10) + 1]>>

IntToStr(n) == IF n < 0 THEN <<"-">> \o NatToStr(-n) ELSE NatToStr(n)

\* mutant of int: a value that is not an integer is read as 0
int_lenient(v) ==
    LET s == Strip(v)
        digits == SelectSeq(s, IsDigit)
    IN  [ok |-> TRUE,
         val |-> IF \A i \in 1..Len(s) : IsDigit(s[i]) THEN DigitsVal(digits)
                 ELSE 0]

\* int(v): surrounding whitespace, an optional sign, then decimal digits in
\* which single underscores may separate digits; anything else is ValueError
int(v) ==
    LET s == Strip(v)
        signed == s # <<>> /\ s[1] \in {"+", "-"}
        body == IF signed THEN Tail(s) ELSE s
        wellFormed ==
            /\ body # <<>>
            /\ \A i \in 1..Len(body) : IsDigit(body[i]) \/ body[i] = "_"
            /\ IsDigit(body[1]) /\ IsDigit(body[Len(body)])
            /\ \A i \in 1..(Len(body) - 1) :
                   ~(body[i] = "_" /\ body[i + 1] = "_")
        digits == SelectSeq(body, IsDigit)
    IN  IF wellFormed
        THEN [ok |-> TRUE,
              val |-> IF signed /\ s[1] = "-" THEN -DigitsVal(digits)
                      ELSE DigitsVal(digits)]
        ELSE [ok |-> FALSE, val |-> 0]

\* shlex.split on text without quotes or escapes: split on runs of whitespace
RECURSIVE shlex_split(_)
shlex_split(s) ==
    LET t == LStrip(s)
        RECURSIVE WordEnd(_)
        WordEnd(i) == IF i > Len(t) \/ t[i] \in Whitespace THEN i - 1
                      ELSE WordEnd(i + 1)
    IN  IF t = <<>> THEN <<>>
        ELSE LET e == WordEnd(1)
             IN  <<SubSeq(t, 1, e)>> \o shlex_split(SubSeq(t, e + 1, Len(t)))

\* ------------------------------------------------------------------------
\* Text constants
\* ------------------------------------------------------------------------
\* the words of the command lines
Word ==
    [\* 'emulator'
     emulator |-> <<"e", "m", "u", "l", "a", "t", "o", "r">>,
     \* '-avd'
     avd_flag |-> <<"-", "a", "v", "d">>,
     \* 'emulator-'
     emulator_dash |-> <<"e", "m", "u", "l", "a", "t", "o", "r", "-">>,
     \* 'list'
     list |-> <<"l", "i", "s", "t">>,
     \* 'device'
     device |-> <<"d", "e", "v", "i", "c", "e">>,
     \* 'avd'
     avd |-> <<"a", "v", "d">>,
     \* 'create'
     create |-> <<"c", "r", "e", "a", "t", "e">>,
     \* '-n'
     dash_n |-> <<"-", "n">>,
     \* '--package'
     package |-> <<"-", "-", "p", "a", "c", "k", "a", "g", "e">>,
     \* '--device'
     device_flag |-> <<"-", "-", "d", "e", "v", "i", "c", "e">>,
     \* '--silent'
     silent |-> <<"-", "-", "s", "i", "l", "e", "n", "t">>,
     \* '--verbose'
     verbose |-> <<"-", "-", "v", "e", "r", "b", "o", "s", "e">>,
     \* '--sdcard'
     sdcard |-> <<"-", "-", "s", "d", "c", "a", "r", "d">>,
     \* '--tag'
     tag |-> <<"-", "-", "t", "a", "g">>,
     \* '--abi'
     abi |-> <<"-", "-", "a", "b", "i">>,
     \* '--skin'
     skin |-> <<"-", "-", "s", "k", "i", "n">>,
     \* '--path'
     path |-> <<"-", "-", "p", "a", "t", "h">>,
     \* '--force'
     force |-> <<"-", "-", "f", "o", "r", "c", "e">>,
     \* '--snapshot'
     snapshot |-> <<"-", "-", "s", "n", "a", "p", "s", "h", "o", "t">>,
     \* 'cmd'
     cmd |-> <<"c", "m", "d">>,
     \* '/c'
     slash_c |-> <<"/", "c">>,
     \* 'delete'
     delete |-> <<"d", "e", "l", "e", "t", "e">>,
     \* 'move'
     move |-> <<"m", "o", "v", "e">>,
     \* '-r'
     dash_r |-> <<"-", "r">>,
     \* '.avd'
     dot_avd |-> <<".", "a", "v", "d">>]
\* names of virtual devices
NameText ==
    [\* 'demo'
     demo |-> <<"d", "e", "m", "o">>,
     \* 'demo2'
     demo2 |-> <<"d", "e", "m", "o", "2">>,
     \* 'invalid'
     invalid |-> <<"i", "n", "v", "a", "l", "i", "d">>]
\* values of AVD.path
PathText ==
    [\* '/t/demo.avd'
     abs |-> <<"/", "t", "/", "d", "e", "m", "o", ".", "a", "v", "d">>,
     \* 'demo.avd'
     bare |-> <<"d", "e", "m", "o", ".", "a", "v", "d">>]
\* '-a  -b'
X_args == <<"-", "a", " ", " ", "-", "b">>
\* 'id: '
ID_PREFIX == <<"i", "d", ":", " ">>
\* ' or "'
ID_OR == <<" ", "o", "r", " ", "\"">>
\* the keys of the listings, in upper case
Key ==
    [\* 'NAME'
     NAME |-> <<"N", "A", "M", "E">>,
     \* 'TYPE'
     TYPE |-> <<"T", "Y", "P", "E">>,
     \* 'API LEVEL'
     API_LEVEL |-> <<"A", "P", "I", " ", "L", "E", "V", "E", "L">>,
     \* 'REVISION'
     REVISION |-> <<"R", "E", "V", "I", "S", "I", "O", "N">>,
     \* 'OEM'
     OEM |-> <<"O", "E", "M">>,
     \* 'TAG'
     TAG |-> <<"T", "A", "G">>,
     \* 'DEVICE'
     DEVICE |-> <<"D", "E", "V", "I", "C", "E">>,
     \* 'PATH'
     PATH |-> <<"P", "A", "T", "H">>,
     \* 'TARGET'
     TARGET |-> <<"T", "A", "R", "G", "E", "T">>,
     \* 'SKIN'
     SKIN |-> <<"S", "K", "I", "N">>,
     \* 'SDCARD'
     SDCARD |-> <<"S", "D", "C", "A", "R", "D">>,
     \* 'BASED ON'
     BASED_ON |-> <<"B", "A", "S", "E", "D", " ", "O", "N">>]
\* 'Tag/ABI:'
TAG_ABI == <<"T", "a", "g", "/", "A", "B", "I", ":">>

\* Lines of `avdmanager list target` output
\* lines of `avdmanager list target` output
TargetLine ==
    [\* ' '
     Blank |-> <<" ">>,
     \* '----------'
     Delim |-> <<"-", "-", "-", "-", "-", "-", "-", "-", "-", "-">>,
     \* '---------'
     Short |-> <<"-", "-", "-", "-", "-", "-", "-", "-", "-">>,
     \* 'id: 1 or "a34"'
     Id1 |->
         <<"i", "d", ":", " ", "1", " ", "o", "r", " ", "\"", "a", "3", "4",
           "\"">>,
     \* 'id: 2 or "a33"'
     Id2 |->
         <<"i", "d", ":", " ", "2", " ", "o", "r", " ", "\"", "a", "3", "3",
           "\"">>,
     \* '    API level: 34'
     Api34 |->
         <<" ", " ", " ", " ", "A", "P", "I", " ", "l", "e", "v", "e", "l",
           ":", " ", "3", "4">>,
     \* 'API level: 3x'
     ApiBad |->
         <<"A", "P", "I", " ", "l", "e", "v", "e", "l", ":", " ", "3", "x">>,
     \* 'Name: A 14'
     Name |-> <<"N", "a", "m", "e", ":", " ", "A", " ", "1", "4">>,
     \* 'Revision: x'
     RevBad |-> <<"R", "e", "v", "i", "s", "i", "o", "n", ":", " ", "x">>,
     \* 'Vendor: x'
     Other |-> <<"V", "e", "n", "d", "o", "r", ":", " ", "x">>]

TargetLines ==
    {TargetLine.Blank, TargetLine.Delim, TargetLine.Short, TargetLine.Id1, TargetLine.Id2, TargetLine.Api34, TargetLine.ApiBad, TargetLine.Name,
     TargetLine.RevBad, TargetLine.Other}

\* Lines of `avdmanager list device` output
\* lines of `avdmanager list device` output
DeviceLine ==
    [\* ''
     Blank |-> <<>>,
     \* '---------'
     Delim |-> <<"-", "-", "-", "-", "-", "-", "-", "-", "-">>,
     \* '--------'
     Short |-> <<"-", "-", "-", "-", "-", "-", "-", "-">>,
     \* 'id: 0 or "px"'
     Id0 |->
         <<"i", "d", ":", " ", "0", " ", "o", "r", " ", "\"", "p", "x",
           "\"">>,
     \* 'id: 1 or "N 5"'
     Id1 |->
         <<"i", "d", ":", " ", "1", " ", "o", "r", " ", "\"", "N", " ", "5",
           "\"">>,
     \* '    Name: P 4'
     Name |->
         <<" ", " ", " ", " ", "N", "a", "m", "e", ":", " ", "P", " ", "4">>,
     \* 'OEM : G'
     Oem |-> <<"O", "E", "M", " ", ":", " ", "G">>,
     \* 'Tag : g'
     Tag |-> <<"T", "a", "g", " ", ":", " ", "g">>,
     \* 'id: 2 or "N"'
     Id2 |-> <<"i", "d", ":", " ", "2", " ", "o", "r", " ", "\"", "N", "\"">>,
     \* 'Name: N'
     NameN |-> <<"N", "a", "m", "e", ":", " ", "N">>,
     \* 'id: 07 or "t"'
     Id07 |->
         <<"i", "d", ":", " ", "0", "7", " ", "o", "r", " ", "\"", "t",
           "\"">>]


DeviceLines ==
    {DeviceLine.Blank, DeviceLine.Delim, DeviceLine.Short, DeviceLine.Id0, DeviceLine.Id1, DeviceLine.Name, DeviceLine.Oem, DeviceLine.Tag}

\* Outputs of `avdmanager list device`: nothing (the command failed), two
\* devices, and three devices of which one has alias "N" and one "N 5"
DeviceListings ==
    {<<>>,
     <<DeviceLine.Delim, DeviceLine.Id0, DeviceLine.Name, DeviceLine.Delim, DeviceLine.Id1, DeviceLine.Tag>>,
     <<DeviceLine.Delim, DeviceLine.Id0, DeviceLine.Delim, DeviceLine.Id2, DeviceLine.Oem, DeviceLine.Delim, DeviceLine.Id1>>}

\* Lines of `avdmanager list avd` output
\* lines of `avdmanager list avd` output
AvdLine ==
    [\* ''
     Blank |-> <<>>,
     \* '----'
     Delim |-> <<"-", "-", "-", "-">>,
     \* '---'
     Short |-> <<"-", "-", "-">>,
     \* 'Name: demo'
     Name |-> <<"N", "a", "m", "e", ":", " ", "d", "e", "m", "o">>,
     \* 'Device: px (G P4)'
     DevPx |->
         <<"D", "e", "v", "i", "c", "e", ":", " ", "p", "x", " ", "(", "G",
           " ", "P", "4", ")">>,
     \* 'Device: N 5 [G]'
     DevN5 |->
         <<"D", "e", "v", "i", "c", "e", ":", " ", "N", " ", "5", " ", "[",
           "G", "]">>,
     \* 'Device:'
     DevEmpty |-> <<"D", "e", "v", "i", "c", "e", ":">>,
     \* 'Based on:  A 34  Tag/ABI:  g/x '
     Based |->
         <<"B", "a", "s", "e", "d", " ", "o", "n", ":", " ", " ", "A", " ",
           "3", "4", " ", " ", "T", "a", "g", "/", "A", "B", "I", ":", " ",
           " ", "g", "/", "x", " ">>,
     \* 'Based on: A 34'
     BasedNoSep |->
         <<"B", "a", "s", "e", "d", " ", "o", "n", ":", " ", "A", " ", "3",
           "4">>,
     \* 'Path: /t/demo.avd'
     Path |->
         <<"P", "a", "t", "h", ":", " ", "/", "t", "/", "d", "e", "m", "o",
           ".", "a", "v", "d">>]

AvdLines ==
    {AvdLine.Blank, AvdLine.Delim, AvdLine.Short, AvdLine.Name, AvdLine.DevPx, AvdLine.DevN5, AvdLine.DevEmpty,
     AvdLine.Based, AvdLine.BasedNoSep, AvdLine.Path}

\* ------------------------------------------------------------------------
\* Target and Device: the dataclasses and their parsers
\* ------------------------------------------------------------------------
\* Target(): the dataclass defaults
Target ==
    [id |-> -1, id_alias |-> NoneV, name |-> NoneV, target_type |-> NoneV,
     api_level |-> NoneV, revision |-> NoneV]

\* Device(): the dataclass defaults
Device ==
    [id |-> -1, id_alias |-> NoneV, name |-> NoneV, oem |-> NoneV,
     tag |-> <<>>]

Target_is_empty(t) == t.id = -1

Device_is_empty(d) == d.id = -1

\* _ID_RE.match(line) for the pattern  id: (\d+) or "([^"]+)"
ID_RE_match(line) ==
    LET RECURSIVE DigitsEnd(_)
        DigitsEnd(i) == IF i <= Len(line) /\ IsDigit(line[i])
                        THEN DigitsEnd(i + 1) ELSE i - 1
        ds == Len(ID_PREFIX) + 1
        de == DigitsEnd(ds)
        as == de + Len(ID_OR) + 1
        q == IndexFrom(line, "\"", as)
    IN  IF /\ StartsWith(line, ID_PREFIX)
           /\ de >= ds
           /\ StartsWith(SubSeq(line, de + 1, Len(line)), ID_OR)
           /\ q > as
        THEN [ok |-> TRUE, id |-> DigitsVal(SubSeq(line, ds, de)),
              alias |-> SubSeq(line, as, q - 1)]
        ELSE [ok |-> FALSE, id |-> -1, alias |-> <<>>]

\* the field-name mapping of Target._parse ("" when the key is not mapped)
TargetMapping(k) ==
    IF k = Key.NAME THEN "name"
    ELSE IF k = Key.TYPE THEN "target_type"
    ELSE IF k = Key.API_LEVEL THEN "api_level"
    ELSE IF k = Key.REVISION THEN "revision"
    ELSE ""

\* the field-name mapping of Device._parse
DeviceMapping(k) ==
    IF k = Key.NAME THEN "name"
    ELSE IF k = Key.OEM THEN "oem"
    ELSE IF k = Key.TAG THEN "tag"
    ELSE ""

\* line.startswith("----------")
TargetDelimiter(line) == StartsWith(line, TargetLine.Delim)

\* line.startswith("---------")
DeviceDelimiter(line) == StartsWith(line, DeviceLine.Delim)

\* mutant of TargetYield: yields every record that was opened
TargetYield_any(cur, out) ==
    IF cur # NoneV THEN Append(out, cur[1]) ELSE out

\* "if cur and not cur.is_empty(): yield cur" of Target._parse
TargetYield(cur, out) ==
    IF cur # NoneV /\ ~Target_is_empty(cur[1]) THEN Append(out, cur[1])
    ELSE out

\* "if cur and not cur.is_empty(): yield cur" of Device._parse
DeviceYield(cur, out) ==
    IF cur # NoneV /\ ~Device_is_empty(cur[1]) THEN Append(out, cur[1])
    ELSE out

\* one iteration of the loop of Target._parse
Target_step(st, raw) ==
    LET line == Strip(raw)
    IN  IF line = <<>> THEN st
        ELSE IF TargetDelimiter(line)
        THEN [st EXCEPT !.out = TargetYield(st.cur, @), !.cur = Some(Target)]
        ELSE
        LET cur == IF st.cur = NoneV THEN Target ELSE st.cur[1]
            m == ID_RE_match(line)
        IN  IF m.ok
            THEN [st EXCEPT !.cur = Some([cur EXCEPT !.id = m.id,
                                                     !.id_alias = Some(m.alias)])]
            ELSE IF Contains(line, ":")
            THEN LET kv == SplitColon(line)
                     attr == TargetMapping(Upper(kv.k))
                 IN  IF attr = "" THEN [st EXCEPT !.cur = Some(cur)]
                     ELSE IF attr \in {"api_level", "revision"}
                     THEN IF int(kv.v).ok
                          THEN [st EXCEPT !.cur =
                                   Some([cur EXCEPT ![attr] = Some(int(kv.v).val)])]
                          ELSE [st EXCEPT !.cur = Some(cur),
                                          !.err = "ValueError"]
                     ELSE [st EXCEPT !.cur = Some([cur EXCEPT ![attr] = Some(kv.v)])]
            ELSE [st EXCEPT !.cur = Some(cur)]

\* one iteration of the loop of Device._parse
Device_step(st, raw) ==
    LET line == Strip(raw)
    IN  IF line = <<>> THEN st
        ELSE IF DeviceDelimiter(line)
        THEN [st EXCEPT !.out = DeviceYield(st.cur, @), !.cur = Some(Device)]
        ELSE
        LET cur == IF st.cur = NoneV THEN Device ELSE st.cur[1]
            m == ID_RE_match(line)
        IN  IF m.ok
            THEN [st EXCEPT !.cur = Some([cur EXCEPT !.id = m.id,
                                                     !.id_alias = Some(m.alias)])]
            ELSE IF Contains(line, ":")
            THEN LET kv == SplitColon(line)
                     attr == DeviceMapping(Upper(kv.k))
                 IN  IF attr = "" THEN [st EXCEPT !.cur = Some(cur)]
                     ELSE IF attr = "tag"
                     THEN [st EXCEPT !.cur = Some([cur EXCEPT !.tag = kv.v])]
                     ELSE [st EXCEPT !.cur = Some([cur EXCEPT ![attr] = Some(kv.v)])]
            ELSE [st EXCEPT !.cur = Some(cur)]

\* the for loop of Target._parse from line i on; it ends at the first error
RECURSIVE Target_loop(_, _, _)
Target_loop(st, ls, i) ==
    IF i > Len(ls) \/ st.err # "" THEN st
    ELSE Target_loop(Target_step(st, ls[i]), ls, i + 1)

RECURSIVE Device_loop(_, _, _)
Device_loop(st, ls, i) ==
    IF i > Len(ls) \/ st.err # "" THEN st
    ELSE Device_loop(Device_step(st, ls[i]), ls, i + 1)

\* mutant of Target_parse: the record open at end of input is not yielded
Target_parse_no_tail(ls) ==
    LET st == Target_loop([cur |-> NoneV, out |-> <<>>, err |-> ""], ls, 1)
    IN  [out |-> st.out, err |-> st.err]

\* Target._parse(lines): the records yielded, and the error raised if any
Target_parse(ls) ==
    LET st == Target_loop([cur |-> NoneV, out |-> <<>>, err |-> ""], ls, 1)
    IN  [out |-> IF st.err = "" THEN TargetYield(st.cur, st.out) ELSE st.out,
         err |-> st.err]

\* Target.get_targets() on the tool's captured output: list() drains the
\* generator, so an error raised by _parse leaves no list to return
get_targets(out) ==
    LET r == Target_parse(out)
    IN  IF r.err = "" THEN [value |-> Some(r.out), err |-> ""]
        ELSE [value |-> NoneV, err |-> r.err]

\* Device._parse(lines)
Device_parse(ls) ==
    LET st == Device_loop([cur |-> NoneV, out |-> <<>>, err |-> ""], ls, 1)
    IN  [out |-> IF st.err = "" THEN DeviceYield(st.cur, st.out) ELSE st.out,
         err |-> st.err]

\* Device.get_devices(): the parse of the tool's captured output
get_devices(out) == Device_parse(out).out

\* ------------------------------------------------------------------------
\* The AVD record and the parser of `avdmanager list avd`
\* ------------------------------------------------------------------------
\* AVD(): the constructor defaults (process, always None here, is left out)
AVD ==
    [name |-> NameText.invalid, device |-> NoneV, path |-> NoneV, target |-> NoneV,
     skin |-> NoneV, sdcard_size |-> NoneV, based_on |-> NoneV,
     abi |-> NoneV]

AVD_is_empty(a) == a.name = NameText.invalid

\* re.sub(r"[\[(].*?[\])]", "", s): drop every run from an opening bracket
\* or parenthesis to the next closing one
RECURSIVE StripAnnotations(_)
StripAnnotations(s) ==
    IF s = <<>> THEN <<>>
    ELSE IF Head(s) \in {"[", "("}
    THEN LET closers == {j \in 2..Len(s) :
                            /\ s[j] \in {"]", ")"}
                            /\ \A i \in 2..(j - 1) : s[i] # "\n"}
         IN  IF closers = {} THEN <<Head(s)>> \o StripAnnotations(Tail(s))
             ELSE LET j == CHOOSE c \in closers : \A d \in closers : c <= d
                  IN  StripAnnotations(SubSeq(s, j + 1, Len(s)))
    ELSE <<Head(s)>> \o StripAnnotations(Tail(s))

\* next((d for d in devices if d.id_alias == alias), None)
FirstByAlias(devices, alias) ==
    LET hits == {i \in 1..Len(devices) : devices[i].id_alias = Some(alias)}
    IN  IF hits = {} THEN NoneV
        ELSE Some(devices[CHOOSE i \in hits : \A j \in hits : i <= j])

\* mutant of device_setter: the annotation is left in the compared text
device_setter_raw(device_str, out) ==
    FirstByAlias(get_devices(out), Strip(device_str))

\* the setter of AVD.device: the value of _device after "avd.device = s"
device_setter(device_str, out) ==
    FirstByAlias(get_devices(out), Strip(StripAnnotations(device_str)))

\* re.match(r"^(\S+)", value): the leading run of non-space characters
FirstToken(value) ==
    LET RECURSIVE TokenEnd(_)
        TokenEnd(i) == IF i <= Len(value) /\ value[i] \notin Whitespace
                       THEN TokenEnd(i + 1) ELSE i - 1
    IN  IF TokenEnd(1) >= 1
        THEN [ok |-> TRUE, tok |-> SubSeq(value, 1, TokenEnd(1))]
        ELSE [ok |-> FALSE, tok |-> <<>>]

\* mutant of BASED_ON_RE_match: a value always matches, as the base image
BASED_ON_RE_match_whole(value) ==
    [ok |-> TRUE, android |-> value, abi |-> <<>>]

\* _BASED_ON_RE.match(value) for  (?P<android>.+?)\s+Tag/ABI:\s+(?P<abi>.+)$
BASED_ON_RE_match(value) ==
    LET RECURSIVE SpaceEnd(_)
        SpaceEnd(i) == IF i <= Len(value) /\ value[i] \in Whitespace
                       THEN SpaceEnd(i + 1) ELSE i - 1
        \* the match with the group android = value[1..k]
        AbiStart(k) == SpaceEnd(k + 1) + Len(TAG_ABI) + 1
        Fits(k) ==
            /\ SpaceEnd(k + 1) >= k + 1
            /\ StartsWith(SubSeq(value, SpaceEnd(k + 1) + 1, Len(value)),
                          TAG_ABI)
            /\ AbiStart(k) <= Len(value)
            /\ value[AbiStart(k)] \in Whitespace
            /\ AbiStart(k) + 1 <= Len(value)
            /\ \A i \in 1..Len(value) : value[i] # "\n"
        ks == {k \in 1..Len(value) : Fits(k)}
    IN  IF ks = {} THEN [ok |-> FALSE, android |-> <<>>, abi |-> <<>>]
        ELSE LET k == CHOOSE x \in ks : \A y \in ks : x <= y
                 rest == SubSeq(value, AbiStart(k), Len(value))
             IN  [ok |-> TRUE, android |-> SubSeq(value, 1, k),
                  \* \s+ is greedy but leaves at least one character to .+
                  abi |-> IF LStrip(rest) = <<>> THEN <<rest[Len(rest)]>>
                          ELSE LStrip(rest)]

\* "if not current.is_empty(): yield current" of _parse_avd_list
AvdYield(current, out) ==
    IF ~AVD_is_empty(current) THEN Append(out, current) ELSE out

\* line matches _AVD_SECTION, ^----+
AvdDelimiter(line) == StartsWith(line, AvdLine.Delim)

\* one iteration of the loop of _parse_avd_list; devs is the tool output
\* that Device.get_devices() parses
avd_step(st, raw, devs) ==
    LET line == Strip(raw)
        cur == st.current
    IN  IF line = <<>> THEN st
        ELSE IF AvdDelimiter(line)
        THEN [st EXCEPT !.out = AvdYield(cur, @), !.current = AVD]
        ELSE IF ~Contains(line, ":") THEN st
        ELSE
        LET key == Upper(SplitColon(line).k)
            value == SplitColon(line).v
        IN  IF key = Key.NAME
            THEN [st EXCEPT !.current = [cur EXCEPT !.name = value]]
            ELSE IF key = Key.DEVICE
            THEN IF FirstToken(value).ok
                 THEN [st EXCEPT !.current = [cur EXCEPT !.device =
                          device_setter(FirstToken(value).tok, devs)]]
                 ELSE [st EXCEPT !.current = [cur EXCEPT !.device =
                          device_setter(value, devs)],
                                 !.err = "AttributeError"]
            ELSE IF key = Key.PATH
            THEN [st EXCEPT !.current = [cur EXCEPT !.path = Some(value)]]
            ELSE IF key = Key.TARGET
            THEN [st EXCEPT !.current = [cur EXCEPT !.target = Some(value)]]
            ELSE IF key = Key.SKIN
            THEN [st EXCEPT !.current = [cur EXCEPT !.skin = Some(value)]]
            ELSE IF key = Key.SDCARD
            THEN [st EXCEPT !.current =
                     [cur EXCEPT !.sdcard_size = Some(value)]]
            ELSE IF key = Key.BASED_ON
            THEN LET m == BASED_ON_RE_match(value)
                 IN  IF m.ok
                     THEN [st EXCEPT !.current =
                              [cur EXCEPT !.based_on = Some(Strip(m.android)),
                                          !.abi = Some(Strip(m.abi))]]
                     ELSE st
            ELSE st

RECURSIVE avd_loop(_, _, _, _)
avd_loop(st, ls, i, devs) ==
    IF i > Len(ls) \/ st.err # "" THEN st
    ELSE avd_loop(avd_step(st, ls[i], devs), ls, i + 1, devs)

\* _parse_avd_list(lines): the records yielded, and the error raised if any
parse_avd_list(ls, devs) ==
    LET st == avd_loop([current |-> AVD, out |-> <<>>, err |-> ""], ls, 1,
                       devs)
    IN  [out |-> IF st.err = "" THEN AvdYield(st.current, st.out)
                 ELSE st.out,
         err |-> st.err]

\* mutant of Reparse: the records of the earlier invocation are still in the
\* output when the parser runs again
Reparse_resumed(k, ls, devs, first) ==
    LET r == IF k = "target" THEN Target_parse(ls)
             ELSE IF k = "device" THEN Device_parse(ls)
             ELSE parse_avd_list(ls, devs)
    IN  [out |-> first.out \o r.out, err |-> r.err]

\* a later invocation of the parser of kind k on the text ls, after the
\* invocation that returned `first`: cur / current and the generator are
\* locals of the call, so nothing of `first` is carried over
Reparse(k, ls, devs, first) ==
    IF k = "target" THEN Target_parse(ls)
    ELSE IF k = "device" THEN Device_parse(ls)
    ELSE parse_avd_list(ls, devs)

\* ------------------------------------------------------------------------
\* AVD runtime control: start / stop / kill
\* ------------------------------------------------------------------------
AvdNames == {NameText.demo, NameText.demo2}
Ports == {5554, 5556}
ExtraArgs == {NoneV, Some(<<>>), Some(X_args)}

Ret(op, outcome, p, value, serial) ==
    [op |-> op, outcome |-> outcome, proc |-> p, value |-> value,
     serial |-> serial]

\* mutant of AlreadyStarted: refuses only while the process is alive
AlreadyStarted_alive ==
    process # NoProc /\ procs[process].state = "running"

\* start(): "if self.process:" -- a Popen object is always truthy
AlreadyStarted == process # NoProc

\* the emulator command line built by start()
StartCmd(extra) ==
    <<Word.emulator, Word.avd_flag, name>> \o
    (IF extra # NoneV /\ extra[1] # <<>> THEN shlex_split(extra[1]) ELSE <<>>)

\* AVD.start(detach, extra_emulator_args); spawnOk: whether Popen succeeds
AVD_start(detach, extra, spawnOk) ==
    IF AlreadyStarted
    THEN /\ ret' = Ret("start", "RuntimeError", NoProc, FALSE, <<>>)
         /\ UNCHANGED <<name, path, process, procs, ran>>
    ELSE IF ~spawnOk
    THEN /\ ret' = Ret("start", "OSError", NoProc, FALSE, <<>>)
         /\ UNCHANGED <<name, path, process, procs, ran>>
    ELSE LET p == Cardinality(DOMAIN procs) + 1
         IN  /\ p <= MaxSpawn
             /\ procs' = procs @@
                    (p :> [state |-> IF detach THEN "running" ELSE "exited",
                           cmd |-> StartCmd(extra)])
             /\ process' = p
             /\ ret' = Ret("start", "ok", p, FALSE, <<>>)
             /\ UNCHANGED <<name, path, ran>>

\* the emulator process ends on its own (or after a shutdown request)
ProcExit(p) ==
    /\ procs[p].state = "running"
    /\ procs' = [procs EXCEPT ![p].state = "exited"]
    /\ UNCHANGED <<name, path, process, ret, ran>>

\* mutant of AVD_stop: a failure of the shell call is raised
AVD_stop_raises(port, shellOk) ==
    /\ ret' = Ret("stop", IF shellOk THEN "ok" ELSE "AdbError", NoProc,
                  shellOk, Word.emulator_dash \o IntToStr(port))
    /\ UNCHANGED <<name, path, process, procs, ran>>

\* AVD.stop(port); shellOk: whether the adb shell call went through
AVD_stop(port, shellOk) ==
    /\ ret' = Ret("stop", "ok", NoProc, shellOk,
                  Word.emulator_dash \o IntToStr(port))
    /\ UNCHANGED <<name, path, process, procs, ran>>

\* mutant of AVD_kill: the handle is cleared, the process left running
AVD_kill_early ==
    IF ~(process # NoProc)
    THEN /\ ret' = Ret("kill", "ok", NoProc, FALSE, <<>>)
         /\ UNCHANGED <<name, path, process, procs, ran>>
    ELSE /\ process' = NoProc
         /\ ret' = Ret("kill", "ok", process, TRUE, <<>>)
         /\ UNCHANGED <<name, path, procs, ran>>

\* AVD.kill()
AVD_kill ==
    IF ~(process # NoProc)
    THEN /\ ret' = Ret("kill", "ok", NoProc, FALSE, <<>>)
         /\ UNCHANGED <<name, path, process, procs, ran>>
    ELSE /\ procs' = [procs EXCEPT ![process].state = "exited"]
         /\ process' = NoProc
         /\ ret' = Ret("kill", "ok", process, TRUE, <<>>)
         /\ UNCHANGED <<name, path, ran>>

\* ------------------------------------------------------------------------
\* find_android_tool.  A path is a sequence of segments; an environment
\* value is optional, and the empty sequence is the empty string.
\* ------------------------------------------------------------------------
SupportedTools == {"adb", "emulator", "avdmanager"}

\* Path.home() and %LOCALAPPDATA%
Home == <<"home">>
LocalAppData == <<"localappdata">>

\* Path.expanduser(): a leading "~" becomes the home directory
expanduser(p) ==
    IF p # <<>> /\ Head(p) = "~" THEN Home \o Tail(p) ELSE p

IsUnder(p, root) ==
    Len(p) > Len(root) /\ SubSeq(p, 1, Len(root)) = root

\* the directories that exist only as directories in the model
IsDirectory(p) == Len(p) >= 2 /\ p[Len(p) - 1] = "d"

\* Path.is_file()
is_file(p) == p \in fs /\ ~IsDirectory(p)

\* _windows_name(tool)
windows_name(t) ==
    IF platform = "win"
    THEN (IF t = "avdmanager" THEN t \o ".bat" ELSE t \o ".exe")
    ELSE t

\* _default_sdk_roots()
default_sdk_roots ==
    IF platform = "darwin"
    THEN <<expanduser(<<"~", "Library", "Android", "sdk">>),
           Home \o <<"Android", "Sdk">>>>
    ELSE IF platform = "win"
    THEN <<LocalAppData \o <<"Android", "Sdk">>,
           Home \o <<"AppData", "Local", "Android", "Sdk">>>>
    ELSE <<Home \o <<"Android", "Sdk">>, <<"opt", "android-sdk">>>>

\* (root / "cmdline-tools").glob("*/bin"): the bin directories one level
\* below cmdline-tools (a directory exists when something lies in it)
GlobBin(root) ==
    {SubSeq(p, 1, Len(root) + 3) :
        p \in {q \in fs : /\ IsUnder(q, root \o <<"cmdline-tools">>)
                           /\ Len(q) > Len(root) + 3
                           /\ q[Len(root) + 3] = "bin"}}

\* mutant of scan_sdk: the recursive search is always made
scan_sdk_always_deep(root0, t, deep) ==
    LET root == expanduser(root0)
        exe == windows_name(t)
        conv == IF t = "adb" THEN {root \o <<"platform-tools", exe>>}
                ELSE IF t = "emulator" THEN {root \o <<"emulator", exe>>}
                ELSE {d \o <<exe>> : d \in GlobBin(root)}
                     \cup {root \o <<"tools", "bin", exe>>}
        hits == {c \in conv : is_file(c)}
    IN  IF hits # {} THEN hits
        ELSE {p \in fs : IsUnder(p, root) /\ p[Len(p)] = exe}

\* _scan_sdk(root, tool, deep): the paths it may return, none when it
\* returns None.  glob and rglob list in an order the file system chooses,
\* so every entry they may list first is a possible result.
scan_sdk(root0, t, deep) ==
    LET root == expanduser(root0)
        exe == windows_name(t)
        globbed == {c \in {d \o <<exe>> : d \in GlobBin(root)} : is_file(c)}
        legacy == {c \in {root \o <<"tools", "bin", exe>>} : is_file(c)}
        hits == IF t = "adb"
                THEN {c \in {root \o <<"platform-tools", exe>>} : is_file(c)}
                ELSE IF t = "emulator"
                THEN {c \in {root \o <<"emulator", exe>>} : is_file(c)}
                ELSE IF globbed # {} THEN globbed ELSE legacy
    IN  IF hits # {} THEN hits
        ELSE IF deep
        THEN {p \in fs : IsUnder(p, root) /\ p[Len(p)] = exe}
        ELSE {}

\* extra.split(",") followed by str.strip on each piece; the value is a
\* sequence of "," and " " and directory names
RECURSIVE SplitComma(_)
SplitComma(s) ==
    LET i == IndexFrom(s, ",", 1)
    IN  IF i = 0 THEN <<Strip(s)>>
        ELSE <<Strip(SubSeq(s, 1, i - 1))>>
             \o SplitComma(SubSeq(s, i + 1, Len(s)))

\* the first stage of a list of stages that yields something
RECURSIVE FirstHit(_)
FirstHit(stages) ==
    IF stages = <<>> THEN {}
    ELSE IF Head(stages).paths # {}
    THEN {[done |-> TRUE, outcome |-> "ok", path |-> p,
           stage |-> Head(stages).stage, tried |-> Head(stages).stage] :
             p \in Head(stages).paths}
    ELSE FirstHit(Tail(stages))

\* steps 1 and 2 of find_android_tool: the override, then PATH
OverrideStage ==
    [stage |-> 1,
     paths |-> IF /\ env.override # NoneV /\ env.override[1] # <<>>
                  /\ is_file(expanduser(env.override[1]))
               THEN {expanduser(env.override[1])} ELSE {}]

PathStage ==
    [stage |-> 2,
     paths |-> IF which.bare # NoneV THEN {which.bare[1]}
               ELSE IF which.win # NoneV THEN {which.win[1]}
               ELSE {}]

\* mutant of SdkRootStage: the root of ANDROID_HOME is scanned as well when
\* the root of ANDROID_SDK_ROOT has nothing
SdkRootStage_both(t) ==
    LET set(v) == v # NoneV /\ v[1] # <<>>
        first == IF set(env.sdk_root) THEN scan_sdk(env.sdk_root[1], t, FALSE)
                 ELSE {}
    IN  [stage |-> 3,
         paths |-> IF first # {} THEN first
                   ELSE IF set(env.home) THEN scan_sdk(env.home[1], t, FALSE)
                   ELSE {}]

\* step 3: os.getenv("ANDROID_SDK_ROOT") or os.getenv("ANDROID_HOME")
SdkRootStage(t) ==
    LET sdk_root == IF env.sdk_root # NoneV /\ env.sdk_root[1] # <<>>
                    THEN env.sdk_root ELSE env.home
    IN  [stage |-> 3,
         paths |-> IF sdk_root # NoneV /\ sdk_root[1] # <<>>
                   THEN scan_sdk(sdk_root[1], t, FALSE) ELSE {}]

\* step 4: the default roots in order
DefaultStage(t) ==
    LET first == scan_sdk(default_sdk_roots[1], t, FALSE)
    IN  [stage |-> 4,
         paths |-> IF first # {} THEN first
                   ELSE scan_sdk(default_sdk_roots[2], t, FALSE)]

\* step 5: the extra directories in order, searched recursively
RECURSIVE ExtraScan(_, _)
ExtraScan(roots, t) ==
    IF roots = <<>> THEN {}
    ELSE IF Head(roots) # <<>> /\ scan_sdk(Head(roots), t, TRUE) # {}
    THEN scan_sdk(Head(roots), t, TRUE)
    ELSE ExtraScan(Tail(roots), t)

\* mutant of ExtraStage: the extra directories are not searched
ExtraStage_skipped(t) == [stage |-> 5, paths |-> {}]

ExtraStage(t) == [stage |-> 5, paths |-> ExtraScan(SplitComma(env.extra), t)]

\* mutant of StageOrder: PATH is consulted before the override
StageOrder_path_first(t) ==
    <<PathStage, OverrideStage, SdkRootStage(t), DefaultStage(t),
      ExtraStage(t)>>

\* the order of the five steps in find_android_tool
StageOrder(t) ==
    <<OverrideStage, PathStage, SdkRootStage(t), DefaultStage(t),
      ExtraStage(t)>>

\* mutant of find_android_tool: the tool name is validated only when the
\* search has found nothing
find_android_tool_late_check(t) ==
    IF FirstHit(StageOrder(t)) # {} THEN FirstHit(StageOrder(t))
    ELSE IF t \notin SupportedTools
    THEN {[done |-> TRUE, outcome |-> "ValueError", path |-> <<>>,
           stage |-> 0, tried |-> 5]}
    ELSE {[done |-> TRUE, outcome |-> "FileNotFoundError", path |-> <<>>,
           stage |-> 0, tried |-> 5]}

\* find_android_tool(tool): the results the call may have; tried counts the
\* steps entered, each of which reads its environment variable or PATH and
\* probes the file system
find_android_tool(t) ==
    IF t \notin SupportedTools
    THEN {[done |-> TRUE, outcome |-> "ValueError", path |-> <<>>,
           stage |-> 0, tried |-> 0]}
    ELSE IF FirstHit(StageOrder(t)) # {} THEN FirstHit(StageOrder(t))
    ELSE {[done |-> TRUE, outcome |-> "FileNotFoundError", path |-> <<>>,
           stage |-> 0, tried |-> Len(StageOrder(t))]}

\* ------------------------------------------------------------------------
\* AVD.create
\* ------------------------------------------------------------------------
\* '/s/avdmanager'
TOOLS_avdmanager ==
    <<"/", "s", "/", "a", "v", "d", "m", "a", "n", "a", "g", "e", "r">>
\* values of the arguments of create
Arg ==
    [\* 's;a34;x'
     pkg |-> <<"s", ";", "a", "3", "4", ";", "x">>,
     \* 'q'
     pkg2 |-> <<"q">>,
     \* '512M'
     v512M |-> <<"5", "1", "2", "M">>,
     \* 'g'
     vtag |-> <<"g">>,
     \* 'px'
     dev_px |-> <<"p", "x">>,
     \* 'N'
     dev_N |-> <<"N">>,
     \* 'P 4'
     dev_P4 |-> <<"P", " ", "4">>,
     \* 'zz'
     dev_zz |-> <<"z", "z">>,
     \* 't'
     dev_t |-> <<"t">>]

\* _run(cmd): the command line executed.  On Windows a tool that is a file
\* without the suffix .exe or .com is launched through cmd /c (wrap).  A
\* non-zero exit is caught and turned into a CompletedProcess.
run(cmd, wrap) == IF wrap THEN <<Word.cmd, Word.slash_c>> \o cmd ELSE cmd

ListDeviceCmd == <<TOOLS_avdmanager, Word.list, Word.device>>
ListAvdCmd == <<TOOLS_avdmanager, Word.list, Word.avd>>

\* mutant of FirstMatch: the last catalog device that matches
LastMatch(devices, device) ==
    LET hits == {i \in 1..Len(devices) :
                    \/ devices[i].id_alias = Some(device)
                    \/ devices[i].name = Some(device)}
    IN  IF hits = {} THEN NoneV
        ELSE Some(devices[CHOOSE i \in hits : \A j \in hits : i >= j])

\* next((d for d in Device.get_devices()
\*       if d.id_alias == device or d.name == device), None)
FirstMatch(devices, device) ==
    LET hits == {i \in 1..Len(devices) :
                    \/ devices[i].id_alias = Some(device)
                    \/ devices[i].name = Some(device)}
    IN  IF hits = {} THEN NoneV
        ELSE Some(devices[CHOOSE i \in hits : \A j \in hits : i <= j])

\* mutant of ResolveDevice: an unknown string falls back to Device().id
ResolveDevice_lenient(device, catalog, wrap) ==
    IF device.kind \in {"Device", "int"}
    THEN [ok |-> TRUE, id |-> device.id, log |-> <<>>]
    ELSE LET match == FirstMatch(get_devices(catalog), device.text)
         IN  [ok |-> TRUE,
              id |-> IF match = NoneV THEN Device.id ELSE match[1].id,
              log |-> <<run(ListDeviceCmd, wrap)>>]

\* the resolution of the device argument of create to an id
ResolveDevice(device, catalog, wrap) ==
    IF device.kind \in {"Device", "int"}
    THEN [ok |-> TRUE, id |-> device.id, log |-> <<>>]
    ELSE LET match == FirstMatch(get_devices(catalog), device.text)
         IN  [ok |-> match # NoneV,
              id |-> IF match = NoneV THEN 0 ELSE match[1].id,
              log |-> <<run(ListDeviceCmd, wrap)>>]

\* "cmd.extend([flag, str(value)])" for the options that are set and not
\* empty, in the order of the dict
RECURSIVE ValueFlags(_)
ValueFlags(pairs) ==
    IF pairs = <<>> THEN <<>>
    ELSE (IF Head(pairs)[2] # NoneV /\ Head(pairs)[2][1] # <<>>
          THEN <<Head(pairs)[1], Head(pairs)[2][1]>> ELSE <<>>)
         \o ValueFlags(Tail(pairs))

\* the command line that create builds
CreateCmd(a, dev_id) ==
    <<TOOLS_avdmanager>>
    \o (IF a.silent \/ a.verbose
        THEN <<IF a.silent THEN Word.silent ELSE Word.verbose>> ELSE <<>>)
    \o <<Word.create, Word.avd, Word.dash_n, a.name, Word.package, a.package,
         Word.device_flag, IntToStr(dev_id)>>
    \o ValueFlags(<<<<Word.sdcard, a.sdcard>>, <<Word.tag, a.tag>>,
                    <<Word.abi, a.abi>>, <<Word.skin, a.skin>>,
                    <<Word.path, a.path>>>>)
    \o (IF a.force THEN <<Word.force>> ELSE <<>>)
    \o (IF a.snapshot THEN <<Word.snapshot>> ELSE <<>>)

\* the commands that parsing a listing runs: every "Device:" line sets
\* AVD.device twice, and each setting calls Device.get_devices(); the line
\* without a value sets it once and then raises
RECURSIVE ParseCommands(_, _)
ParseCommands(ls, wrap) ==
    IF ls = <<>> THEN <<>>
    ELSE LET line == Strip(Head(ls))
             isDevice == /\ line # <<>> /\ ~AvdDelimiter(line)
                         /\ Contains(line, ":")
                         /\ Upper(SplitColon(line).k) = Key.DEVICE
         IN  IF ~isDevice THEN ParseCommands(Tail(ls), wrap)
             ELSE IF FirstToken(SplitColon(line).v).ok
             THEN <<run(ListDeviceCmd, wrap), run(ListDeviceCmd, wrap)>>
                  \o ParseCommands(Tail(ls), wrap)
             ELSE <<run(ListDeviceCmd, wrap)>>

\* next((a for a in avds if a.name == name), None)
FirstNamed(avds, nm) ==
    LET hits == {i \in 1..Len(avds) : avds[i].name = nm}
    IN  IF hits = {} THEN NoneV
        ELSE Some(avds[CHOOSE i \in hits : \A j \in hits : i <= j])

\* AVD.get_by_name(name), res being what parsing the listing gives
by_name(nm, res, log) ==
    [err |-> res.err,
     avd |-> IF res.err # "" THEN NoneV ELSE FirstNamed(res.out, nm),
     log |-> log]

\* AVD.get_avds() and AVD.get_by_name(name)
get_by_name(nm, listing0, catalog, wrap) ==
    by_name(nm, parse_avd_list(listing0, catalog),
            <<run(ListAvdCmd, wrap)>> \o ParseCommands(listing0, wrap))

\* lines 331-334 of AVD.create, once the command line is built: run it,
\* query by name, "assert avd" (compiled away when __debug__ is false)
create_run(a, e, dev, got) ==
    [log |-> dev.log \o <<run(CreateCmd(a, dev.id), e.wrap)>> \o got.log,
     outcome |-> IF got.err # "" THEN got.err
                 ELSE IF e.debug /\ got.avd = NoneV THEN "AssertionError"
                 ELSE "ok",
     value |-> got.avd]

\* lines 301-334 of AVD.create, the device being resolved to dev
create_resolved(a, e, dev) ==
    IF ~dev.ok
    THEN [log |-> dev.log, outcome |-> "ValueError", value |-> NoneV]
    ELSE create_run(a, e, dev,
                    get_by_name(a.name, e.listing, e.catalog, e.wrap))

\* mutant of AVD_create: the two verbosity flags are compared after the
\* device has been resolved
AVD_create_late_flags(a, e) ==
    IF a.silent /\ a.verbose
    THEN [log |-> ResolveDevice(a.device, e.catalog, e.wrap).log,
          outcome |-> "ValueError", value |-> NoneV]
    ELSE create_resolved(a, e, ResolveDevice(a.device, e.catalog, e.wrap))

\* AVD.create(**a): the commands run and the value returned or the error
\* raised
AVD_create(a, e) ==
    IF a.silent /\ a.verbose
    THEN [log |-> <<>>, outcome |-> "ValueError", value |-> NoneV]
    ELSE create_resolved(a, e, ResolveDevice(a.device, e.catalog, e.wrap))

\* ------------------------------------------------------------------------
\* AVD.delete and AVD.rename
\* ------------------------------------------------------------------------
\* os.path.dirname (posixpath)
dirname(p) ==
    LET slashes == {i \in 1..Len(p) : p[i] = "/"}
        i == IF slashes = {} THEN 0
             ELSE CHOOSE k \in slashes : \A j \in slashes : j <= k
        head == SubSeq(p, 1, i)
        RECURSIVE RStripSlash(_)
        RStripSlash(h) == IF h # <<>> /\ h[Len(h)] = "/"
                          THEN RStripSlash(SubSeq(h, 1, Len(h) - 1)) ELSE h
    IN  IF head # <<>> /\ \E k \in 1..Len(head) : head[k] # "/"
        THEN RStripSlash(head) ELSE head

\* os.path.join(a, b) (posixpath)
join(a, b) ==
    IF b # <<>> /\ b[1] = "/" THEN b
    ELSE IF a = <<>> \/ a[Len(a)] = "/" THEN a \o b
    ELSE a \o <<"/">> \o b

\* AVD.delete(); exit is the exit status of the command.  _run turns a
\* CalledProcessError into a CompletedProcess, so the except clause of
\* delete() is never entered.
AVD_delete(exit, wrap) ==
    /\ ran' = [argv |-> run(<<TOOLS_avdmanager, Word.delete, Word.avd,
                              Word.dash_n, name>>, wrap),
               exit |-> exit]
    /\ ret' = Ret("delete", "ok", NoProc, TRUE, <<>>)
    /\ UNCHANGED <<name, path, process, procs>>

\* AVD.rename(new_name); the except clause is never entered either
AVD_rename(new_name, exit, wrap) ==
    /\ ran' = [argv |-> run(<<TOOLS_avdmanager, Word.move, Word.avd,
                              Word.dash_n, name, Word.dash_r, new_name>>,
                            wrap),
               exit |-> exit]
    /\ path' = IF path # NoneV /\ path[1] # <<>>
               THEN Some(join(dirname(path[1]), new_name \o Word.dot_avd))
               ELSE path
    /\ name' = new_name
    /\ ret' = Ret("rename", "ok", NoProc, TRUE, <<>>)
    /\ UNCHANGED <<process, procs>>

\* ------------------------------------------------------------------------
\* AVD.wait_boot_completed.  The clock advances only while the call is
\* blocked: in client.list, in dev.shell and in time.sleep, each of which
\* may take up to MaxLag seconds more than its nominal time.
\* ------------------------------------------------------------------------
\* time.sleep(5)
PollInterval == 5

Lags == 0..MaxLag

\* what the k-th shell query answers: the script is played in order and
\* its last answer is repeated
Answer(k) ==
    adb.script[IF k <= Len(adb.script) THEN k ELSE Len(adb.script)]

\* mutant of Booted: a query that raises ends the wait
Booted_or_raised(a) == a.raises \/ Strip(a.out) = <<"1">>

\* mutant of Booted: the output is compared as it is
Booted_unstripped(a) == ~a.raises /\ a.out = <<"1">>

\* dev.shell([...]).strip() == "1", a query that raises being passed over
Booted(a) == ~a.raises /\ Strip(a.out) = <<"1">>

\* mutant of FirstProduct: the device listed first
FirstProduct_index(devices, nm) ==
    IF devices = <<>> THEN NoneV ELSE Some(devices[1].serial)

\* the serial of the first listed device whose "product" tag is the name
FirstProduct(devices, nm) ==
    LET hits == {i \in 1..Len(devices) : devices[i].product = Some(nm)}
    IN  IF hits = {} THEN NoneV
        ELSE Some(devices[CHOOSE i \in hits : \A j \in hits : i <= j].serial)

\* lines 392-403: the deadline, the listing of the devices, the match
wait_begin(lag) ==
    /\ wait.pc = "begin"
    /\ clock' = clock + lag
    /\ LET serial == FirstProduct(adb.devices, wargs.name)
       IN  IF serial = NoneV \/ serial[1] = ""
           THEN /\ wret' = [done |-> TRUE, outcome |-> "RuntimeError"]
                /\ wait' = [wait EXCEPT !.pc = "done",
                                        !.deadline = clock + wargs.timeout]
           ELSE /\ wret' = wret
                /\ wait' = [wait EXCEPT !.pc = "loop",
                                        !.deadline = clock + wargs.timeout,
                                        !.serial = serial[1],
                                        !.entered = clock']
    /\ UNCHANGED <<wargs, adb>>

\* lines 405-412: the test of the loop and, when it passes, one query
\* (the history of the polls is kept up to MaxPolls of them)
wait_poll(lag) ==
    /\ wait.pc = "loop"
    /\ IF clock < wait.deadline
       THEN /\ Len(wait.polls) < MaxPolls
            /\ clock' = clock + lag
            /\ IF Booted(Answer(Len(wait.polls) + 1))
               THEN /\ wret' = [done |-> TRUE, outcome |-> "ok"]
                    /\ wait' = [wait EXCEPT !.pc = "done",
                                            !.polls = Append(@, clock)]
               ELSE /\ wret' = wret
                    /\ wait' = [wait EXCEPT !.pc = "sleep",
                                            !.polls = Append(@, clock)]
       ELSE /\ lag = 0
            /\ clock' = clock
            /\ wret' = [done |-> TRUE, outcome |-> "BootTimeoutError"]
            /\ wait' = [wait EXCEPT !.pc = "done"]
    /\ UNCHANGED <<wargs, adb>>

\* mutant of Slept: the sleep takes no time
Slept_frozen(now, lag) == now

\* the clock after time.sleep(5)
Slept(now, lag) == now + PollInterval + lag

\* line 413: time.sleep(5)
wait_sleep(lag) ==
    /\ wait.pc = "sleep"
    /\ clock' = Slept(clock, lag)
    /\ wait' = [wait EXCEPT !.pc = "loop", !.sleeps = @ + 1]
    /\ UNCHANGED <<wargs, adb, wret>>

\* ------------------------------------------------------------------------
\* Specifications
\* ------------------------------------------------------------------------
LifeInit ==
    /\ name \in AvdNames
    /\ path = NoneV
    /\ process = NoProc
    /\ procs = <<>>
    /\ ret = Ret("init", "ok", NoProc, FALSE, <<>>)
    /\ ran = [argv |-> <<>>, exit |-> 0]

ParseIdle ==
    /\ kind = "none"
    /\ lines = <<>>
    /\ listing = <<>>
    /\ parsed = [done |-> FALSE, out |-> <<>>, err |-> ""]
    /\ again = [done |-> FALSE, out |-> <<>>, err |-> "", listing |-> <<>>]

FindIdle ==
    /\ tool = "adb"
    /\ platform = "linux"
    /\ env = [override |-> NoneV, sdk_root |-> NoneV, home |-> NoneV,
              extra |-> <<>>]
    /\ which = [bare |-> NoneV, win |-> NoneV]
    /\ fs = {}
    /\ found = [done |-> FALSE, outcome |-> "", path |-> <<>>, stage |-> 0,
                tried |-> 0]

CreateIdle ==
    /\ cargs = <<>>
    /\ cenv = <<>>
    /\ cmdlog = <<>>
    /\ cret = [done |-> FALSE, outcome |-> "", value |-> NoneV]

BootIdle ==
    /\ wargs = <<>>
    /\ adb = <<>>
    /\ clock = 0
    /\ wait = <<>>
    /\ wret = [done |-> FALSE, outcome |-> ""]

LifeIdle ==
    /\ name = NameText.demo
    /\ path = NoneV
    /\ process = NoProc
    /\ procs = <<>>
    /\ ret = Ret("init", "ok", NoProc, FALSE, <<>>)
    /\ ran = [argv |-> <<>>, exit |-> 0]

DoStart ==
    /\ \E detach \in BOOLEAN, extra \in ExtraArgs, spawnOk \in BOOLEAN :
           AVD_start(detach, extra, spawnOk)
    /\ UNCHANGED <<parseVars, findVars, createVars, bootVars>>

DoProcExit ==
    /\ \E p \in DOMAIN procs : ProcExit(p)
    /\ UNCHANGED <<parseVars, findVars, createVars, bootVars>>

DoStop ==
    /\ \E port \in Ports, shellOk \in BOOLEAN : AVD_stop(port, shellOk)
    /\ UNCHANGED <<parseVars, findVars, createVars, bootVars>>

DoKill ==
    /\ AVD_kill
    /\ UNCHANGED <<parseVars, findVars, createVars, bootVars>>

LifeNext == DoStart \/ DoProcExit \/ DoStop \/ DoKill

InitLife == LifeInit /\ ParseIdle /\ FindIdle /\ CreateIdle /\ BootIdle

\* The lifecycle of one AVD instance
SpecLife == InitLife /\ [][LifeNext]_vars

InputsOver(alphabet, n) == UNION {[1..k -> alphabet] : k \in 0..n}

ParseInit ==
    /\ kind \in {"target", "device", "avd"}
    /\ lines \in IF kind = "target" THEN InputsOver(TargetLines, MaxLines)
                 ELSE IF kind = "device"
                 THEN InputsOver(DeviceLines, MaxLines)
                 ELSE InputsOver(AvdLines, MaxAvdLines)
    /\ listing \in IF kind = "avd" THEN DeviceListings ELSE {<<>>}
    /\ parsed = [done |-> FALSE, out |-> <<>>, err |-> ""]
    /\ again = [done |-> FALSE, out |-> <<>>, err |-> "", listing |-> <<>>]

DoTargetParse ==
    /\ kind = "target"
    /\ ~parsed.done
    /\ parsed' = [done |-> TRUE, out |-> Target_parse(lines).out,
                  err |-> Target_parse(lines).err]
    /\ UNCHANGED <<kind, lines, listing, again, lifeVars, findVars,
                   createVars, bootVars>>

DoDeviceParse ==
    /\ kind = "device"
    /\ ~parsed.done
    /\ parsed' = [done |-> TRUE, out |-> Device_parse(lines).out,
                  err |-> Device_parse(lines).err]
    /\ UNCHANGED <<kind, lines, listing, again, lifeVars, findVars,
                   createVars, bootVars>>

DoAvdParse ==
    /\ kind = "avd"
    /\ ~parsed.done
    /\ parsed' = [done |-> TRUE, out |-> parse_avd_list(lines, listing).out,
                  err |-> parse_avd_list(lines, listing).err]
    /\ UNCHANGED <<kind, lines, listing, again, lifeVars, findVars,
                   createVars, bootVars>>

\* the same parser is invoked once more on the same text; the virtual-device
\* parser reads the device catalog again, which may have changed meanwhile
DoReparse ==
    /\ parsed.done
    /\ ~again.done
    /\ \E devs \in IF kind = "avd" THEN DeviceListings ELSE {<<>>} :
           \E r \in {Reparse(kind, lines, devs, parsed)} :
               again' = [done |-> TRUE, out |-> r.out, err |-> r.err,
                         listing |-> devs]
    /\ UNCHANGED <<kind, lines, listing, parsed, lifeVars, findVars,
                   createVars, bootVars>>

\* Raw device field values assigned to AVD.device: an alias, bare or followed
\* by an annotation in parentheses or in square brackets
SetterAliases == {<<"p", "x">>, <<"N", " ", "5">>, <<"N">>, <<"z">>}
Annotations == {<<>>, <<"G">>, <<"G", " ", "P", "4">>}
Annotated(alias, ann, open, close) ==
    alias \o <<" ", open>> \o ann \o <<close>>
DeviceStrings ==
    SetterAliases
    \cup {Annotated(al, an, "(", ")") : al \in SetterAliases, an \in Annotations}
    \cup {Annotated(al, an, "[", "]") : al \in SetterAliases, an \in Annotations}

SetterInit ==
    /\ kind = "setter"
    /\ lines \in {<<s>> : s \in DeviceStrings}
    /\ listing \in DeviceListings
    /\ parsed = [done |-> FALSE, out |-> <<>>, err |-> ""]
    /\ again = [done |-> FALSE, out |-> <<>>, err |-> "", listing |-> <<>>]

\* "avd.device = lines[1]" on a fresh AVD; out holds _device afterwards
DoSetDevice ==
    /\ kind = "setter"
    /\ ~parsed.done
    /\ parsed' = [done |-> TRUE, out |-> device_setter(lines[1], listing),
                  err |-> ""]
    /\ UNCHANGED <<kind, lines, listing, again, lifeVars, findVars,
                   createVars, bootVars>>

SetterNext == DoSetDevice

InitSetter == SetterInit /\ LifeIdle /\ FindIdle /\ CreateIdle /\ BootIdle

\* One assignment to AVD.device
SpecSetter == InitSetter /\ [][SetterNext]_vars

ParseNext == DoTargetParse \/ DoDeviceParse \/ DoAvdParse \/ DoReparse

InitParse == ParseInit /\ LifeIdle /\ FindIdle /\ CreateIdle /\ BootIdle

\* One run of a parser on one input
SpecParse == InitParse /\ [][ParseNext]_vars

\* the paths that may exist when tool t is looked for: the tool in its
\* conventional places under four roots, elsewhere under four roots, in a
\* second cmdline-tools version, at the two places an override names, and
\* one directory that bears its name
FsUniverse(t) ==
    LET exe == windows_name(t)
        convRoots == {<<"sdk1">>, <<"sdk2">>, default_sdk_roots[1], <<"E">>}
        conv == IF t = "adb" THEN {<<"platform-tools">>}
                ELSE IF t = "emulator" THEN {<<"emulator">>}
                ELSE {<<"cmdline-tools", "latest", "bin">>, <<"tools", "bin">>}
    IN  {r \o c \o <<exe>> : r \in convRoots, c \in conv}
        \cup {<<"sdk1", "x", exe>>, default_sdk_roots[1] \o <<"x", exe>>,
              <<"E", "x", exe>>, <<"F", "x", "y", exe>>,
              <<"E", "d", exe>>,
              <<"sdk1", IF t = "avdmanager" THEN "cmdline-tools" ELSE "x",
                "old", "bin", exe>>,
              <<"o", exe>>, Home \o <<exe>>}

FindInit ==
    /\ tool \in SupportedTools \cup {"zipalign"}
    /\ platform \in {"linux", "darwin", "win"}
    /\ env \in [override : {NoneV, Some(<<"~", windows_name(tool)>>),
                            Some(<<"o", windows_name(tool)>>)},
                sdk_root : {NoneV, Some(<<>>), Some(<<"sdk1">>)},
                home : {NoneV, Some(<<"sdk2">>)},
                extra : {<<>>, <<" ", "E", ",", ",", "F">>}]
    /\ which \in {[bare |-> NoneV, win |-> NoneV],
                  [bare |-> IF platform = "win" THEN NoneV
                            ELSE Some(<<"usr", "bin", tool>>),
                   win |-> Some(<<"usr", "bin", windows_name(tool)>>)]}
    /\ fs \in {f \in SUBSET FsUniverse(tool) :
                    Cardinality(f) <= IF tool \in SupportedTools
                                      THEN MaxFiles ELSE 1}
    /\ found = [done |-> FALSE, outcome |-> "", path |-> <<>>, stage |-> 0,
                tried |-> 0]

DoFind ==
    /\ ~found.done
    /\ found' \in find_android_tool(tool)
    /\ UNCHANGED <<tool, platform, env, which, fs, lifeVars, parseVars,
                   createVars, bootVars>>

FindNext == DoFind

InitFind == FindInit /\ LifeIdle /\ ParseIdle /\ CreateIdle /\ BootIdle

\* One call of find_android_tool in one environment
SpecFind == InitFind /\ [][FindNext]_vars

\* the device argument: a Device, an int or a string
DeviceArgs ==
    {[kind |-> "Device", id |-> 3, text |-> <<>>],
     [kind |-> "int", id |-> 12, text |-> <<>>]}
    \cup {[kind |-> "str", id |-> 0, text |-> t] :
             t \in {Arg.dev_px, Arg.dev_N, Arg.dev_P4, Arg.dev_zz, Arg.dev_t}}

\* the optional arguments: none; silent; silent and verbose; verbose with
\* an empty sdcard, a tag, force and snapshot
NoOptions ==
    [sdcard |-> NoneV, tag |-> NoneV, abi |-> NoneV, skin |-> NoneV,
     path |-> NoneV, force |-> FALSE, snapshot |-> FALSE, silent |-> FALSE,
     verbose |-> FALSE]

OptionSets ==
    {NoOptions,
     [NoOptions EXCEPT !.silent = TRUE],
     [NoOptions EXCEPT !.silent = TRUE, !.verbose = TRUE],
     [NoOptions EXCEPT !.verbose = TRUE, !.sdcard = Some(<<>>),
                       !.tag = Some(Arg.vtag), !.skin = Some(Arg.v512M),
                       !.force = TRUE, !.snapshot = TRUE]}

\* outputs of `avdmanager list device`: nothing; two devices; a device
\* named like the alias of a later one; an id written with a leading zero
CreateCatalogs ==
    {<<>>,
     <<DeviceLine.Delim, DeviceLine.Id0, DeviceLine.Name, DeviceLine.Delim, DeviceLine.Id1, DeviceLine.Tag>>,
     <<DeviceLine.Delim, DeviceLine.Id0, DeviceLine.NameN, DeviceLine.Delim, DeviceLine.Id2>>,
     <<DeviceLine.Delim, DeviceLine.Id07>>}

\* lines of `avdmanager list avd` after the creation command has run
CreateAvdLines == {AvdLine.Delim, AvdLine.Name, AvdLine.DevPx, AvdLine.DevEmpty}

CreateInit ==
    /\ cargs \in {[name |-> np[1], package |-> np[2], device |-> d,
                   sdcard |-> o.sdcard, tag |-> o.tag, abi |-> o.abi,
                   skin |-> o.skin, path |-> o.path, force |-> o.force,
                   snapshot |-> o.snapshot, silent |-> o.silent,
                   verbose |-> o.verbose] :
                   np \in {<<NameText.demo, Arg.pkg>>,
                           <<NameText.demo2, Arg.pkg2>>},
                   d \in DeviceArgs, o \in OptionSets}
    /\ cenv \in [catalog : CreateCatalogs,
                 listing : InputsOver(CreateAvdLines, MaxListing),
                 exit : {0, 1},
                 debug : BOOLEAN,
                 wrap : BOOLEAN]
    /\ cmdlog = <<>>
    /\ cret = [done |-> FALSE, outcome |-> "", value |-> NoneV]

DoCreate ==
    /\ ~cret.done
    /\ \E r \in {AVD_create(cargs, cenv)} :
           /\ cmdlog' = cmdlog \o r.log
           /\ cret' = [done |-> TRUE, outcome |-> r.outcome,
                       value |-> r.value]
    /\ UNCHANGED <<cargs, cenv, lifeVars, parseVars, findVars, bootVars>>

CreateNext == DoCreate

InitCreate == CreateInit /\ LifeIdle /\ ParseIdle /\ FindIdle /\ BootIdle

\* One call of AVD.create against one state of the tools
SpecCreate == InitCreate /\ [][CreateNext]_vars

\* an AVD as the parser or the caller constructs it: no process, a path
\* that is unset, empty, absolute or relative
CrudInit ==
    /\ name \in AvdNames
    /\ path \in {NoneV, Some(<<>>), Some(PathText.abs), Some(PathText.bare)}
    /\ process = NoProc
    /\ procs = <<>>
    /\ ret = Ret("init", "ok", NoProc, FALSE, <<>>)
    /\ ran = [argv |-> <<>>, exit |-> 0]

DoDelete ==
    /\ \E exit \in {0, 1}, wrap \in BOOLEAN : AVD_delete(exit, wrap)
    /\ UNCHANGED <<parseVars, findVars, createVars, bootVars>>

DoRename ==
    /\ \E new_name \in AvdNames, exit \in {0, 1}, wrap \in BOOLEAN :
           AVD_rename(new_name, exit, wrap)
    /\ UNCHANGED <<parseVars, findVars, createVars, bootVars>>

CrudNext == DoDelete \/ DoRename

InitCrud == CrudInit /\ ParseIdle /\ FindIdle /\ CreateIdle /\ BootIdle

\* delete() and rename() on one AVD
SpecCrud == InitCrud /\ [][CrudNext]_vars

\* what client.list(extended=True) returns: nothing; the instance alone;
\* another instance first and two of this name
AdbDevices ==
    {<<>>,
     <<[serial |-> "emulator-5554", product |-> Some(NameText.demo)]>>,
     <<[serial |-> "emulator-5554", product |-> Some(NameText.demo2)],
       [serial |-> "emulator-5556", product |-> Some(NameText.demo)],
       [serial |-> "emulator-5558", product |-> Some(NameText.demo)]>>}

\* what a shell query may do: print "1\n", "0\n" or nothing, or raise
ShellAnswers ==
    {[raises |-> FALSE, out |-> <<"1", "\n">>],
     [raises |-> FALSE, out |-> <<"0", "\n">>],
     [raises |-> FALSE, out |-> <<>>],
     [raises |-> TRUE, out |-> <<>>]}

BootInit ==
    /\ wargs \in [name : {NameText.demo}, timeout : -1..MaxTimeout]
    /\ adb \in [devices : AdbDevices,
                script : UNION {[1..n -> ShellAnswers] : n \in 1..MaxScript}]
    /\ clock = 0
    /\ wait = [pc |-> "begin", deadline |-> 0, serial |-> "", entered |-> 0,
               polls |-> <<>>, sleeps |-> 0]
    /\ wret = [done |-> FALSE, outcome |-> ""]

DoWaitBegin ==
    /\ \E lag \in Lags : wait_begin(lag)
    /\ UNCHANGED <<lifeVars, parseVars, findVars, createVars>>

DoWaitPoll ==
    /\ \E lag \in Lags : wait_poll(lag)
    /\ UNCHANGED <<lifeVars, parseVars, findVars, createVars>>

DoWaitSleep ==
    /\ \E lag \in Lags : wait_sleep(lag)
    /\ UNCHANGED <<lifeVars, parseVars, findVars, createVars>>

BootNext == DoWaitBegin \/ DoWaitPoll \/ DoWaitSleep

InitBoot == BootInit /\ LifeIdle /\ ParseIdle /\ FindIdle /\ CreateIdle

\* One call of wait_boot_completed
SpecBoot == InitBoot /\ [][BootNext]_vars

\* The same call, given that the thread runs on and that every blocking
\* call (list, shell, sleep) returns
SpecBootFair == SpecBoot /\ WF_vars(BootNext)

\* ------------------------------------------------------------------------
\* Properties of the lifecycle
\* ------------------------------------------------------------------------
\* the processes spawned by this instance that are still running
LiveProcs == {p \in DOMAIN procs : procs[p].state = "running"}

\* C1: at most one live process exists per AVD instance and it is the one
\* whose handle is held; start() called while a handle is held fails with
\* the already-started RuntimeError, spawns nothing and keeps the handle.
C1_OneHandle ==
    /\ [](Cardinality(LiveProcs) <= 1 /\ LiveProcs \subseteq {process})
    /\ [][\A d \in BOOLEAN, e \in ExtraArgs, ok \in BOOLEAN :
            (process # NoProc /\ AVD_start(d, e, ok)) =>
                /\ ret'.outcome = "RuntimeError"
                /\ procs' = procs
                /\ process' = process]_vars

\* start() was refused while the handle of a running emulator was held
C1_Witness ==
    /\ ret.op = "start" /\ ret.outcome = "RuntimeError"
    /\ process # NoProc /\ procs[process].state = "running"

\* ------------------------------------------------------------------------
\* Properties of the parsers
\* ------------------------------------------------------------------------
\* whether the parser of this kind takes the raw line as a section delimiter
IsDelimiterLine(raw) ==
    IF kind = "target" THEN StartsWith(Strip(raw), TargetLine.Delim)
    ELSE IF kind = "device" THEN StartsWith(Strip(raw), DeviceLine.Delim)
    ELSE StartsWith(Strip(raw), AvdLine.Delim)

\* whether the raw line is an identifier line for the parser of this kind:
\* id: <n> or "<alias>" for targets and devices, Name: for virtual devices
IsIdentifierLine(raw) ==
    /\ ~IsDelimiterLine(raw)
    /\ IF kind = "avd"
       THEN Contains(Strip(raw), ":") /\ Upper(SplitColon(Strip(raw)).k) = Key.NAME
       ELSE ID_RE_match(Strip(raw)).ok

\* the number of the section line i lies in: the delimiters before it
SectionOf(i) == Cardinality({j \in 1..(i - 1) : IsDelimiterLine(lines[j])})

\* the lines of section s (delimiters excluded), as indices
SectionLines(s) ==
    {i \in 1..Len(lines) : ~IsDelimiterLine(lines[i]) /\ SectionOf(i) = s}

\* the sections that hold an identifier line
IdentifiedSections ==
    {s \in 0..Len(lines) : \E i \in SectionLines(s) : IsIdentifierLine(lines[i])}

IsSentinel(r) == IF kind = "avd" THEN r.name = NameText.invalid ELSE r.id = -1

\* C2: no parser yields a record carrying the empty sentinel; a section with
\* no identifier line is never emitted (at most one record per section that
\* has one), so delimiter-only input yields nothing.
C2_NoSentinel ==
    parsed.done =>
        /\ \A k \in 1..Len(parsed.out) : ~IsSentinel(parsed.out[k])
        /\ Len(parsed.out) <= Cardinality(IdentifiedSections)

\* a section with a recognised field but no identifier line follows an
\* emitted section and a run of two delimiters
C2_Witness ==
    /\ parsed.done /\ kind = "target" /\ parsed.err = ""
    /\ lines = <<TargetLine.Id1, TargetLine.Delim, TargetLine.Delim, TargetLine.Api34>>
    /\ Len(parsed.out) = 1

\* a set of line numbers in increasing order
RECURSIVE Sorted(_)
Sorted(S) ==
    IF S = {} THEN <<>>
    ELSE LET m == CHOOSE x \in S : \A y \in S : x <= y
         IN  <<m>> \o Sorted(S \ {m})

\* the sections that hold a non-blank line, in input order
ContentSections ==
    Sorted({s \in 0..Len(lines) :
               \E i \in SectionLines(s) : Strip(lines[i]) # <<>>})

\* the key: value lines of section s that set attribute attr, in order
FieldLines(s, attr) ==
    Sorted({i \in SectionLines(s) :
               /\ ~IsIdentifierLine(lines[i])
               /\ Contains(Strip(lines[i]), ":")
               /\ LET k == Upper(SplitColon(Strip(lines[i])).k)
                  IN  IF kind = "target" THEN TargetMapping(k) = attr
                      ELSE DeviceMapping(k) = attr})

\* the text of attribute attr in section s: that of its last line, if any
FieldText(s, attr) ==
    LET ls == FieldLines(s, attr)
    IN  IF ls = <<>> THEN NoneV
        ELSE Some(SplitColon(Strip(lines[ls[Len(ls)]])).v)

\* the identifier line of a section that has exactly one
IdOf(s) ==
    ID_RE_match(Strip(lines[CHOOSE i \in SectionLines(s) :
                                   IsIdentifierLine(lines[i])]))

IntField(t) == IF t = NoneV THEN NoneV ELSE Some(int(t[1]).val)

\* the record that section s describes
SectionRecord(s) ==
    IF kind = "target"
    THEN [id |-> IdOf(s).id, id_alias |-> Some(IdOf(s).alias),
          name |-> FieldText(s, "name"),
          target_type |-> FieldText(s, "target_type"),
          api_level |-> IntField(FieldText(s, "api_level")),
          revision |-> IntField(FieldText(s, "revision"))]
    ELSE [id |-> IdOf(s).id, id_alias |-> Some(IdOf(s).alias),
          name |-> FieldText(s, "name"), oem |-> FieldText(s, "oem"),
          tag |-> IF FieldText(s, "tag") = NoneV THEN <<>>
                  ELSE FieldText(s, "tag")[1]]

\* the input is n sections with one identifier line each, and its numeric
\* fields hold integers
WellFormedSections ==
    /\ \A k \in 1..Len(ContentSections) :
           Cardinality({i \in SectionLines(ContentSections[k]) :
                           IsIdentifierLine(lines[i])}) = 1
    /\ \A i \in 1..Len(lines) :
           (/\ kind = "target"
            /\ ~IsDelimiterLine(lines[i]) /\ ~IsIdentifierLine(lines[i])
            /\ Contains(Strip(lines[i]), ":")
            /\ TargetMapping(Upper(SplitColon(Strip(lines[i])).k))
                   \in {"api_level", "revision"})
           => int(SplitColon(Strip(lines[i])).v).ok

\* C3: on n delimited sections with one identifier line each, Target._parse
\* and Device._parse yield exactly n records in input order, the k-th with
\* the id, alias and field values of the k-th section, the last section
\* included though no delimiter closes it.
C3_SectionsInOrder ==
    (parsed.done /\ kind \in {"target", "device"} /\ WellFormedSections) =>
        /\ parsed.err = ""
        /\ Len(parsed.out) = Len(ContentSections)
        /\ \A k \in 1..Len(parsed.out) :
               parsed.out[k] = SectionRecord(ContentSections[k])

\* two sections with different ids, the first with an API level, the second
\* ending the input
C3_Witness ==
    /\ parsed.done /\ kind = "target" /\ WellFormedSections
    /\ Len(parsed.out) = 2
    /\ parsed.out[1].id = 1 /\ parsed.out[1].api_level = Some(34)
    /\ parsed.out[2].id = 2 /\ parsed.out[2].api_level = NoneV
    /\ ~IsDelimiterLine(lines[Len(lines)])

\* ------------------------------------------------------------------------
\* Properties of find_android_tool
\* ------------------------------------------------------------------------
OverrideNamesFile ==
    /\ tool \in SupportedTools
    /\ env.override # NoneV
    /\ env.override[1] # <<>>
    /\ is_file(expanduser(env.override[1]))

\* C4: for every supported tool, when the override variable ANDROID_<TOOL>
\* names an existing regular file, find_android_tool returns that path (the
\* value of the variable with a leading "~" expanded, hence the value itself
\* when it has none), whatever PATH, the SDK roots, the default roots and the
\* extra directories hold.
C4_OverrideWins ==
    (found.done /\ OverrideNamesFile) =>
        /\ found.outcome = "ok"
        /\ found.path = expanduser(env.override[1])
        /\ (Head(env.override[1]) # "~" => found.path = env.override[1])

\* an override that names a file, with candidates on PATH, under the SDK
\* root and in the extra directories as well
C4_Witness ==
    /\ found.done /\ OverrideNamesFile
    /\ Head(env.override[1]) # "~"
    /\ which.win # NoneV
    /\ env.sdk_root = Some(<<"sdk1">>)
    /\ \E p \in fs : IsUnder(p, <<"sdk1">>) /\ is_file(p) /\ Len(p) = 3
    /\ env.extra # <<>>
    /\ found.path = env.override[1]

\* the regular files at the conventional places of the tool under a root
Conventional(root0) ==
    LET root == expanduser(root0)
        exe == windows_name(tool)
    IN  {p \in fs :
            /\ ~IsDirectory(p)
            /\ \/ tool = "adb" /\ p = root \o <<"platform-tools", exe>>
               \/ tool = "emulator" /\ p = root \o <<"emulator", exe>>
               \/ /\ tool = "avdmanager"
                  /\ \/ p = root \o <<"tools", "bin", exe>>
                     \/ /\ IsUnder(p, root \o <<"cmdline-tools">>)
                        /\ Len(p) = Len(root) + 4
                        /\ p[Len(root) + 3] = "bin"
                        /\ p[Len(p)] = exe}

\* everything below a root that bears the name of the tool
Anywhere(root0) ==
    {p \in fs : IsUnder(p, expanduser(root0))
                /\ p[Len(p)] = windows_name(tool)}

ExtraRoots ==
    {r \in {SplitComma(env.extra)[i] : i \in 1..Len(SplitComma(env.extra))} :
        r # <<>>}

\* the candidates of each of the five stages
Candidates(k) ==
    CASE k = 1 -> IF OverrideNamesFile THEN {expanduser(env.override[1])}
                  ELSE {}
      [] k = 2 -> {w[1] : w \in {which.bare, which.win} \ {NoneV}}
      [] k = 3 -> IF env.sdk_root # NoneV /\ env.sdk_root[1] # <<>>
                  THEN Conventional(env.sdk_root[1])
                  ELSE IF env.home # NoneV /\ env.home[1] # <<>>
                  THEN Conventional(env.home[1])
                  ELSE {}
      [] k = 4 -> UNION {Conventional(default_sdk_roots[i]) : i \in 1..2}
      [] k = 5 -> UNION {Anywhere(r) : r \in ExtraRoots}

\* C5: find_android_tool returns a candidate of the earliest stage that has
\* one, in the order override, PATH, SDK-root variable, default roots, extra
\* directories; it fails only when no stage has one; and a file that lies
\* under a root outside the conventional places is a candidate of the
\* extra-directories stage alone.
C5_EarliestStage ==
    (found.done /\ tool \in SupportedTools) =>
        IF \A k \in 1..5 : Candidates(k) = {}
        THEN found.outcome = "FileNotFoundError"
        ELSE /\ found.outcome = "ok"
             /\ found.stage \in 1..5
             /\ found.path \in Candidates(found.stage)
             /\ \A j \in 1..(found.stage - 1) : Candidates(j) = {}

\* the tool lies outside the conventional places both under the SDK root
\* and under an extra directory: only the latter is found
C5_Witness ==
    /\ found.done /\ tool \in SupportedTools
    /\ env.sdk_root = Some(<<"sdk1">>)
    /\ <<"sdk1", "x", windows_name(tool)>> \in fs
    /\ found.outcome = "ok" /\ found.stage = 5
    /\ found.path = <<"F", "x", "y", windows_name(tool)>>

\* ------------------------------------------------------------------------
\* Properties of AVD.create
\* ------------------------------------------------------------------------
\* the arguments that follow the path of the tool in a command line
ArgsAfterTool(argv) ==
    LET at == {i \in 1..Len(argv) : argv[i] = TOOLS_avdmanager}
    IN  IF at = {} THEN <<>>
        ELSE SubSeq(argv, (CHOOSE i \in at : \A j \in at : i <= j) + 1,
                    Len(argv))

IsCreation(argv) ==
    \E i \in 1..(Len(ArgsAfterTool(argv)) - 1) :
        /\ ArgsAfterTool(argv)[i] = Word.create
        /\ ArgsAfterTool(argv)[i + 1] = Word.avd

CreationCommands == {i \in 1..Len(cmdlog) : IsCreation(cmdlog[i])}

CatalogDevices == get_devices(cenv.catalog)

\* the catalog devices whose alias or name is the device string
Matching ==
    {i \in 1..Len(CatalogDevices) :
        \/ CatalogDevices[i].id_alias = Some(cargs.device.text)
        \/ CatalogDevices[i].name = Some(cargs.device.text)}

StringDeviceNoOptions ==
    /\ cret.done
    /\ cargs.device.kind = "str"
    /\ [f \in DOMAIN NoOptions |-> cargs[f]] = NoOptions

ExpectedTail(i) ==
    <<Word.create, Word.avd, Word.dash_n, cargs.name, Word.package, cargs.package,
      Word.device_flag, IntToStr(i)>>

OneCreationWithDevice(i) ==
    /\ Cardinality(CreationCommands) = 1
    /\ \A c \in CreationCommands :
           ArgsAfterTool(cmdlog[c]) = ExpectedTail(i)

\* C6 as stated: create with a string device reference that matches a
\* catalog Device with id i, and no optional arguments, executes exactly one
\* creation command whose arguments after the tool path are
\* ["create","avd","-n",name,"--package",package,"--device",str(i)].
C6_AnyMatch ==
    StringDeviceNoOptions =>
        \A m \in Matching : OneCreationWithDevice(CatalogDevices[m].id)

\* C6, amended: the id in the command is that of the first Device, in
\* catalog order, whose alias or name equals the string.
C6_FirstMatch ==
    (StringDeviceNoOptions /\ Matching # {}) =>
        OneCreationWithDevice(
            CatalogDevices[CHOOSE m \in Matching :
                               \A k \in Matching : m <= k].id)

\* the string is the name of device 0 and the alias of device 2
C6_Witness ==
    /\ StringDeviceNoOptions
    /\ Cardinality(Matching) = 2
    /\ \E c \in CreationCommands :
           /\ ArgsAfterTool(cmdlog[c]) = ExpectedTail(0)
           /\ ArgsAfterTool(cmdlog[c])[8] = <<"0">>

UnknownDevice == cret.done /\ cargs.device.kind = "str" /\ Matching = {}

\* C7 as stated: create with a device string that is neither the alias nor
\* the name of a catalog Device fails with ValueError and issues no
\* external command.
C7_NoCommand ==
    UnknownDevice => cret.outcome = "ValueError" /\ cmdlog = <<>>

\* C7, amended: it fails with ValueError having issued no command but the
\* query of the device catalog (at most once): no creation command and no
\* query of the virtual devices.
C7_OnlyCatalogQuery ==
    UnknownDevice =>
        /\ cret.outcome = "ValueError"
        /\ cret.value = NoneV
        /\ Len(cmdlog) <= 1
        /\ \A i \in 1..Len(cmdlog) :
               ArgsAfterTool(cmdlog[i]) = <<Word.list, Word.device>>

\* an unknown string against a catalog that holds devices
C7_Witness ==
    /\ UnknownDevice
    /\ Len(CatalogDevices) = 2
    /\ ~(cargs.silent /\ cargs.verbose)
    /\ cret.outcome = "ValueError"
    /\ cmdlog = <<run(ListDeviceCmd, cenv.wrap)>>

\* the records of the listing that follows the creation command
ListedAvds == parse_avd_list(cenv.listing, cenv.catalog)

\* C8: after the creation command create queries the virtual devices by
\* name; when no entry has that name it fails with the creation error and
\* returns no AVD; when it returns, the value is the record of that name.
C8_RequeryFatal ==
    (cret.done /\ CreationCommands # {}) =>
        /\ \E c \in CreationCommands : \E q \in (c + 1)..Len(cmdlog) :
               ArgsAfterTool(cmdlog[q]) = <<Word.list, Word.avd>>
        /\ \A listed \in {ListedAvds} :
            /\ (/\ listed.err = ""
                /\ \A i \in 1..Len(listed.out) :
                       listed.out[i].name # cargs.name)
                    => cret.outcome = "AssertionError"
            /\ cret.outcome = "ok" =>
                   /\ cret.value # NoneV
                   /\ \E i \in 1..Len(listed.out) :
                          /\ listed.out[i].name = cargs.name
                          /\ cret.value = Some(listed.out[i])

\* ------------------------------------------------------------------------
\* Properties of wait_boot_completed
\* ------------------------------------------------------------------------
\* a connected device carries the name of this AVD as its product
MatchingInstance ==
    \E i \in 1..Len(adb.devices) :
        adb.devices[i].product = Some(wargs.name)

\* the shell prints 1, alone or followed by a newline
ReportsOne(a) == ~a.raises /\ a.out \in {<<"1">>, <<"1", "\n">>}

NeverReportsOne == \A k \in 1..Len(adb.script) : ~ReportsOne(adb.script[k])

NeverBoots == wargs.timeout >= 0 /\ MatchingInstance /\ NeverReportsOne

\* C9: for every timeout >= 0, against a matching instance whose shell never
\* reports "1", the call ends, and ends with BootTimeoutError; every poll
\* is started before the deadline, and with timeout = 0 none is made.
C9_TimesOut ==
    /\ NeverBoots => <>(wret.done /\ wret.outcome = "BootTimeoutError")
    /\ [](NeverBoots =>
            /\ \A i \in 1..Len(wait.polls) : wait.polls[i] < wait.deadline
            /\ wargs.timeout = 0 => wait.polls = <<>>
            /\ wret.done => wret.outcome = "BootTimeoutError")

\* a call that polled and slept more than once before it gave up
C9_Witness ==
    /\ NeverBoots
    /\ wret.done /\ wret.outcome = "BootTimeoutError"
    /\ Len(wait.polls) >= 2 /\ wait.sleeps >= 2
    /\ clock >= wait.deadline

FirstPollReportsOne == MatchingInstance /\ ReportsOne(adb.script[1])

ReturnsAfterOnePoll ==
    wret.outcome = "ok" /\ Len(wait.polls) = 1 /\ wait.sleeps = 0

\* C10 as stated: for any timeout, against a matching instance whose shell
\* reports "1" on the first poll, the call returns without error after
\* exactly one poll and without sleeping.
C10_AnyTimeout ==
    (wret.done /\ FirstPollReportsOne) => ReturnsAfterOnePoll

\* C10, amended: so it is for any timeout that has not run out when the
\* polling loop is reached, that is, when the deadline set on entry is
\* later than the time at which the listing of the devices returned.
C10_TimeoutNotElapsed ==
    (wret.done /\ FirstPollReportsOne /\ wait.entered < wait.deadline) =>
        ReturnsAfterOnePoll

\* the shell prints "1\n" and the call returns after one poll
C10_Witness ==
    /\ wret.done /\ FirstPollReportsOne
    /\ adb.script[1].out = <<"1", "\n">>
    /\ wait.entered < wait.deadline
    /\ ReturnsAfterOnePoll
    /\ wait.polls = <<wait.entered>>

\* C11: the instance polled is the first connected device whose "product"
\* tag is the name of this AVD, whatever its place in the list or its
\* port; when no device has that tag the call fails with RuntimeError
\* before any poll or sleep, whatever the timeout.
C11_FirstByProduct ==
    wait.pc # "begin" =>
        IF MatchingInstance
        THEN \E i \in 1..Len(adb.devices) :
                /\ adb.devices[i].product = Some(wargs.name)
                /\ \A j \in 1..(i - 1) :
                       adb.devices[j].product # Some(wargs.name)
                /\ wait.serial = adb.devices[i].serial
        ELSE /\ wret.done /\ wret.outcome = "RuntimeError"
             /\ wait.polls = <<>> /\ wait.sleeps = 0

\* three instances run, the second and the third under this name: the
\* second is polled
C11_Witness ==
    /\ Len(adb.devices) = 3
    /\ adb.devices[1].product # Some(wargs.name)
    /\ wait.serial = "emulator-5556"
    /\ Len(wait.polls) >= 1

\* C12: a shell query that raises counts as "not yet booted": no error of
\* the shell ends the call, the next poll comes a polling interval later at
\* the earliest, and a poll that is made and answered "1" ends the call
\* with success, also after queries that raised.
C12_RaiseIsNotBooted ==
    /\ wret.outcome \in {"", "ok", "BootTimeoutError", "RuntimeError"}
    /\ \A i \in 1..Len(wait.polls) :
          Answer(i).raises =>
              /\ i < Len(wait.polls) =>
                     wait.polls[i + 1] >= wait.polls[i] + PollInterval
              /\ i = Len(wait.polls) => wret.outcome # "ok"
    /\ (Len(wait.polls) >= 1 /\ ReportsOne(Answer(Len(wait.polls)))) =>
           wret.done /\ wret.outcome = "ok"
    /\ wret.outcome = "ok" =>
           Len(wait.polls) >= 1 /\ ReportsOne(Answer(Len(wait.polls)))

\* the first query raises, the second answers "1"
C12_Witness ==
    /\ wret.done /\ wret.outcome = "ok"
    /\ Len(wait.polls) = 2 /\ wait.sleeps = 1
    /\ Answer(1).raises
    /\ ReportsOne(Answer(2))

\* C13: kill() with no handle held returns false and changes nothing;
\* kill() with a handle held ends that process, clears the handle once the
\* process has exited and returns true, leaving name, path and every other
\* process as they were.
C13_KillFrame ==
    [][AVD_kill =>
          IF process = NoProc
          THEN /\ ret'.value = FALSE
               /\ UNCHANGED <<name, path, process, procs>>
          ELSE /\ ret'.value = TRUE
               /\ procs'[process].state = "exited"
               /\ process' = NoProc
               /\ UNCHANGED <<name, path>>
               /\ DOMAIN procs' = DOMAIN procs
               /\ \A p \in DOMAIN procs \ {process} : procs'[p] = procs[p]]_vars

\* a kill that found a handle: the process has exited, the handle is clear
C13_Witness ==
    /\ ret.op = "kill" /\ ret.value = TRUE
    /\ process = NoProc
    /\ ret.proc \in DOMAIN procs
    /\ procs[ret.proc].state = "exited"
    /\ Cardinality(DOMAIN procs) >= 2

\* ------------------------------------------------------------------------
\* Properties of delete and rename
\* ------------------------------------------------------------------------
\* C14: delete() returns true only if the deletion command succeeded; when
\* the command exits non-zero it returns false, and does not raise.
C14_DeleteReports ==
    ret.op = "delete" =>
        /\ ret.outcome = "ok"
        /\ ret.value = (ran.exit = 0)

\* the path with its final segment replaced by "<n>.avd"
Renamed(p, n) ==
    LET slashes == {i \in 1..Len(p) : p[i] = "/"}
        last == IF slashes = {} THEN 0
                ELSE CHOOSE k \in slashes : \A j \in slashes : j <= k
    IN  SubSeq(p, 1, last) \o n \o Word.dot_avd

\* C15: rename(newName) returns true exactly when the rename command
\* succeeded; then the name is newName and a known path keeps its directory
\* with the final segment replaced by "<newName>.avd" (an unknown path
\* stays unknown); when the command fails it returns false and name and
\* path are unchanged.
C15_RenameReports ==
    [][\A n \in AvdNames, e \in {0, 1}, w \in BOOLEAN :
          AVD_rename(n, e, w) =>
              /\ ret'.value = (e = 0)
              /\ e = 0 =>
                    /\ name' = n
                    /\ path' = IF path = NoneV \/ path = Some(<<>>) THEN path
                               ELSE Some(Renamed(path[1], n))
              /\ e # 0 => UNCHANGED <<name, path>>]_vars

\* ------------------------------------------------------------------------
\* Properties of stop
\* ------------------------------------------------------------------------
\* the serial "emulator-<port>" written out for the ports of the model
SerialOf(port) ==
    Word.emulator_dash
    \o (IF port = 5554 THEN <<"5", "5", "5", "4">> ELSE <<"5", "5", "5", "6">>)

\* C16: stop(port) addresses the serial "emulator-<port>" and raises
\* nothing: it returns true when the shutdown request was sent and false
\* when the shell collaborator failed, with or without a handle held, and
\* it touches neither the handle nor the processes.
C16_StopNeverRaises ==
    [][\A port \in Ports, shellOk \in BOOLEAN :
          AVD_stop(port, shellOk) =>
              /\ ret'.outcome = "ok"
              /\ ret'.value = shellOk
              /\ ret'.serial = SerialOf(port)
              /\ UNCHANGED <<name, path, process, procs>>]_vars

\* a failed stop, on port 5556, while a handle is held
C16_Witness ==
    /\ ret.op = "stop" /\ ret.outcome = "ok" /\ ret.value = FALSE
    /\ ret.serial = SerialOf(5556)
    /\ process # NoProc

\* ------------------------------------------------------------------------
\* Properties of the numeric fields of a target section
\* ------------------------------------------------------------------------
\* some line of the input is a numeric field whose value is not an integer
HasBadNumber ==
    \E i \in 1..Len(lines) : lines[i] \in {TargetLine.ApiBad, TargetLine.RevBad}

\* C17: a target listing with an API level or a Revision that is not an
\* integer fails as a whole with ValueError: get_targets returns no list,
\* not even of the sections that came before the bad line; a listing
\* without such a line parses without error.
C17_BadNumberIsFatal ==
    (parsed.done /\ kind = "target") =>
        \A r \in {get_targets(lines)} :
            IF HasBadNumber
            THEN /\ parsed.err = "ValueError"
                 /\ r.err = "ValueError" /\ r.value = NoneV
            ELSE /\ parsed.err = ""
                 /\ r.err = "" /\ r.value = Some(parsed.out)

\* a complete section precedes the bad Revision line
C17_Witness ==
    /\ parsed.done /\ kind = "target"
    /\ lines = <<TargetLine.Id1, TargetLine.Delim, TargetLine.Id2, TargetLine.RevBad>>
    /\ parsed.err = "ValueError"
    /\ get_targets(lines).value = NoneV

\* ------------------------------------------------------------------------
\* Properties of parsing the same text twice
\* ------------------------------------------------------------------------
\* the two invocations returned sequences of equal length whose records
\* are equal field by field, in the same order
SameRecords ==
    /\ Len(again.out) = Len(parsed.out)
    /\ \A i \in 1..Len(parsed.out) :
           /\ DOMAIN again.out[i] = DOMAIN parsed.out[i]
           /\ \A f \in DOMAIN parsed.out[i] : again.out[i][f] = parsed.out[i][f]

SetterCatalog == get_devices(listing)
WithAlias(al) ==
    {i \in 1..Len(SetterCatalog) : SetterCatalog[i].id_alias = Some(al)}

\* C19: assigning "<alias> (<annotation>)" or "<alias> [<annotation>]" to
\* AVD.device gives the same Device as assigning the bare "<alias>": the
\* first catalog Device with that alias, and no Device when the catalog
\* has none with that alias.
C19_AnnotationStripped ==
    (kind = "setter" /\ parsed.done) =>
        \A al \in SetterAliases, an \in Annotations :
            lines[1] \in {al, Annotated(al, an, "(", ")"),
                          Annotated(al, an, "[", "]")}
            => /\ parsed.out = device_setter(al, listing)
               /\ IF WithAlias(al) = {} THEN parsed.out = NoneV
                  ELSE /\ parsed.out # NoneV
                       /\ \E i \in WithAlias(al) :
                              /\ parsed.out[1] = SetterCatalog[i]
                              /\ \A j \in WithAlias(al) : i <= j

\* "N 5 [G P4]" resolved to device 1 in a catalog that also has alias "N"
C19_Witness ==
    /\ kind = "setter" /\ parsed.done
    /\ lines[1] = Annotated(<<"N", " ", "5">>, <<"G", " ", "P", "4">>, "[", "]")
    /\ parsed.out # NoneV
    /\ parsed.out[1].id = 1
    /\ WithAlias(<<"N">>) # {}

\* ------------------------------------------------------------------------
\* Properties of the "Based on" line of the virtual-device parser
\* ------------------------------------------------------------------------
\* the input has line l
HasLine(l) == \E i \in 1..Len(lines) : lines[i] = l

\* the input is one section that names its AVD and has no empty Device line
OneNamedSection ==
    /\ HasLine(AvdLine.Name)
    /\ ~HasLine(AvdLine.Delim)
    /\ ~HasLine(AvdLine.DevEmpty)

BaseOfLine == Some(<<"A", " ", "3", "4">>)
AbiOfLine == Some(<<"g", "/", "x">>)

\* C20: a "Based on" value "<base> Tag/ABI: <abi>" sets based_on to the
\* trimmed base and abi to the trimmed abi; a value without "Tag/ABI:"
\* leaves both unset and the parse does not fail. No record has one of the
\* two fields without the other.
C20_BasedOnSplit ==
    (kind = "avd" /\ parsed.done) =>
        /\ \A r \in 1..Len(parsed.out) :
               \/ parsed.out[r].based_on = BaseOfLine /\ parsed.out[r].abi = AbiOfLine
               \/ parsed.out[r].based_on = NoneV /\ parsed.out[r].abi = NoneV
        /\ OneNamedSection =>
               /\ parsed.err = ""
               /\ Len(parsed.out) = 1
               /\ IF HasLine(AvdLine.Based)
                  THEN /\ parsed.out[1].based_on = BaseOfLine
                       /\ parsed.out[1].abi = AbiOfLine
                  ELSE /\ parsed.out[1].based_on = NoneV
                       /\ parsed.out[1].abi = NoneV

\* a section whose only "Based on" line has no separator
C20_Witness ==
    /\ kind = "avd" /\ parsed.done /\ parsed.err = ""
    /\ lines = <<AvdLine.Name, AvdLine.BasedNoSep>>
    /\ Len(parsed.out) = 1
    /\ parsed.out[1].based_on = NoneV /\ parsed.out[1].abi = NoneV

\* ------------------------------------------------------------------------
\* Properties of the failures of find_android_tool
\* ------------------------------------------------------------------------
\* C21: for a tool name outside adb, emulator and avdmanager the call fails
\* with ValueError before any step of the search is entered, so before any
\* environment variable is read or the file system probed, whatever the
\* environment holds; a supported name never fails that way.
C21_UnsupportedFailsFirst ==
    found.done =>
        IF tool \in {"adb", "emulator", "avdmanager"}
        THEN found.outcome # "ValueError"
        ELSE /\ found.outcome = "ValueError"
             /\ found.tried = 0
             /\ found.path = <<>>

\* an unsupported name in an environment where the override names an
\* existing file and PATH has a hit
C21_Witness ==
    /\ found.done /\ tool = "zipalign"
    /\ env.override = Some(<<"o", windows_name(tool)>>)
    /\ is_file(env.override[1])
    /\ which.win # NoneV
    /\ found.outcome = "ValueError"

\* the paths that exist: the files and directories of the file system and
\* what the PATH lookup reports
Existing == fs \cup {w[1] : w \in {which.bare, which.win} \ {NoneV}}

\* C22: for a supported tool the call fails with FileNotFoundError exactly
\* when none of the five stages has a candidate, and then all five stages
\* have been tried; a path it returns exists and is a candidate of one of
\* the stages.
C22_NotFoundAfterAllStages ==
    (found.done /\ tool \in SupportedTools) =>
        /\ found.outcome \in {"ok", "FileNotFoundError"}
        /\ (found.outcome = "FileNotFoundError")
               <=> (\A k \in 1..5 : Candidates(k) = {})
        /\ found.outcome = "FileNotFoundError" =>
               found.tried = 5 /\ found.path = <<>>
        /\ found.outcome = "ok" =>
               /\ found.path \in Existing
               /\ found.path \in UNION {Candidates(k) : k \in 1..5}
               /\ found.tried \in 1..5

\* the tool is on disk, below the SDK root but outside its conventional
\* place, and no stage finds it
C22_Witness ==
    /\ found.done /\ tool \in SupportedTools
    /\ env.sdk_root = Some(<<"sdk1">>)
    /\ env.extra # <<>>
    /\ fs = {<<"sdk1", "x", windows_name(tool)>>}
    /\ found.outcome = "FileNotFoundError"
    /\ found.tried = 5

\* ------------------------------------------------------------------------
\* Properties of the failures of AVD.create
\* ------------------------------------------------------------------------
\* C23: create called with silent and verbose both set fails with
\* ValueError and returns nothing, having run no command at all: neither
\* the query of the device catalog nor the creation command.
C23_BothFlagsFailFast ==
    (cret.done /\ cargs.silent /\ cargs.verbose) =>
        /\ cret.outcome = "ValueError"
        /\ cret.value = NoneV
        /\ cmdlog = <<>>

\* both flags with a device string that the catalog holds: without the
\* flags the catalog would have been queried and the AVD created
C23_Witness ==
    /\ cret.done /\ cargs.silent /\ cargs.verbose
    /\ cargs.device.kind = "str" /\ Matching # {}
    /\ cret.outcome = "ValueError"
    /\ cmdlog = <<>>

\* ------------------------------------------------------------------------
\* Properties of the return to the bound state
\* ------------------------------------------------------------------------
\* C24: once a started instance has been stopped with a successful stop(),
\* killed with kill(), or its emulator has exited during a non-detached
\* start(), the instance holds no handle and a start() that follows is not
\* refused as already started.
C24_BackToBound ==
    /\ [](ret.op = "stop" /\ ret.value = TRUE => process = NoProc)
    /\ [](ret.op = "kill" /\ ret.value = TRUE => process = NoProc)
    /\ [](process # NoProc => procs[process].state = "running")
    /\ [][\A d \in BOOLEAN, e \in ExtraArgs, ok \in BOOLEAN :
            (/\ ret.op \in {"stop", "kill"} /\ ret.value = TRUE
             /\ AVD_start(d, e, ok))
            => ret'.outcome # "RuntimeError"]_vars

\* C25: when the creation command exits non-zero, create fails and returns
\* no AVD, also when the listing that follows holds a virtual device of
\* the requested name.
C25_CreationFailureSurfaced ==
    (cret.done /\ CreationCommands # {} /\ cenv.exit # 0) =>
        /\ cret.outcome # "ok"
        /\ cret.value = NoneV

\* ------------------------------------------------------------------------
\* Properties of the device of a parsed virtual device
\* ------------------------------------------------------------------------
\* the aliases written in the Device lines of the input: the value of the
\* line up to its annotation, trimmed
WrittenAliases ==
    {Strip(StripAnnotations(SplitColon(Strip(lines[i])).v)) :
        i \in {j \in 1..Len(lines) :
                  /\ Contains(Strip(lines[j]), ":")
                  /\ Upper(SplitColon(Strip(lines[j])).k) = Key.DEVICE}}

\* C26: the device of every AVD yielded by _parse_avd_list is unset or is
\* a catalog Device whose alias is the text of the Device line before its
\* annotation; it is never a Device matched on the first word of that text.
C26_DeviceByWholeAlias ==
    (kind = "avd" /\ parsed.done) =>
        \A r \in 1..Len(parsed.out) :
            parsed.out[r].device # NoneV =>
                \E al \in WrittenAliases :
                    parsed.out[r].device[1].id_alias = Some(al)

\* C28: for every input and every device catalog the virtual-device parser
\* ends without raising an error, also on a line whose key is recognised
\* and whose value is empty, such as "Device:".
C28_AvdParseNeverRaises ==
    (kind = "avd" /\ parsed.done) => parsed.err = ""

\* ------------------------------------------------------------------------
\* Properties of the SDK-root stage of find_android_tool
\* ------------------------------------------------------------------------
\* the variable names a root: it is set and not empty
NamesRoot(v) == v # NoneV /\ v[1] # <<>>

\* the override and PATH stages miss for a supported tool
EarlyStagesMiss ==
    /\ found.done /\ tool \in SupportedTools
    /\ Candidates(1) = {} /\ Candidates(2) = {}

\* C27 as stated: when the override and PATH stages miss and the tool is
\* in its conventional place under the root named by ANDROID_SDK_ROOT or
\* by ANDROID_HOME, the call returns such a path from the SDK-root stage.
C27_EitherVariable ==
    EarlyStagesMiss =>
        \A v \in {env.sdk_root, env.home} :
            (NamesRoot(v) /\ Conventional(v[1]) # {}) =>
                /\ found.outcome = "ok"
                /\ found.stage = 3
                /\ found.path \in Conventional(v[1])

\* C27: when the override and PATH stages miss, the SDK-root stage scans
\* one root: the one ANDROID_SDK_ROOT names, or the one ANDROID_HOME names
\* when ANDROID_SDK_ROOT is unset or empty.  If the tool is in its
\* conventional place under that root the call returns such a path from
\* this stage; otherwise this stage yields nothing, also when the tool is
\* under the root of the other variable.
C27_PrimaryElseSecondary ==
    EarlyStagesMiss =>
        \A v \in {IF NamesRoot(env.sdk_root) THEN env.sdk_root ELSE env.home} :
            IF NamesRoot(v) /\ Conventional(v[1]) # {}
            THEN /\ found.outcome = "ok"
                 /\ found.stage = 3
                 /\ found.path \in Conventional(v[1])
            ELSE found.stage # 3

\* ANDROID_SDK_ROOT is empty and the tool is found under ANDROID_HOME
C27_Witness ==
    /\ EarlyStagesMiss
    /\ env.sdk_root = Some(<<>>)
    /\ env.home = Some(<<"sdk2">>)
    /\ found.outcome = "ok" /\ found.stage = 3
    /\ IsUnder(found.path, <<"sdk2">>)
====
